---- MODULE Spec2Model ----
(***************************************************************************)
(* The submission pipeline of the integration service: POST /contacts     *)
(* (validate, transform, commit to Gitea, index in OpenSearch), the Gitea  *)
(* webhook (signature check, dispatch, propagation to Moqui, index update, *)
(* notification) and the manual re-sync endpoint.                          *)
(*                                                                         *)
(* One request is in flight at a time; a handler advances one adapter call *)
(* (one await) per step, and every adapter call may fail.                  *)
(***************************************************************************)
EXTENDS Naturals, Sequences, FiniteSets, TLC

\* ------------------------------------------------------------------ bounds
\* Requests (submissions, webhooks, re-syncs) started in one behaviour.
MaxTasks == 3
\* Adapter calls that fail in one behaviour, for a reason other than the
\* state of the service they address.
MaxFaults == 2

\* --------------------------------------------------------------- constants
\* Length of the hex digest of HMAC-SHA256.
DigestLen == 64

\* The status createBranch takes for "the branch already exists".
BranchExistsStatus == 422

\* JS null / undefined for string-valued fields.
NoValue == "null"
\* JS null / undefined for object-valued fields.
Null == [null |-> TRUE]

WEBHOOK_SECRET == "your-webhook-secret"

\* ------------------------------------------------------------------- state
VARIABLES
    branches,       \* Gitea: names of the branches of the repository
    files,          \* Gitea: <<branch, path>> of every committed file
    pulls,          \* Gitea: sequence of pull requests, pulls[n].number = n
    contactsExists, \* OpenSearch: whether the contacts index exists
    contacts,       \* OpenSearch: documents of the contacts index, by _id
    notifications,  \* OpenSearch: documents of the notifications index
    persons,        \* Moqui: person parties
    mechs,          \* Moqui: contact mechanisms
    orgs,           \* Moqui: organization parties
    relationships,  \* Moqui: party relationships
    attributes,     \* Moqui: party attributes
    faults,         \* adapter calls that failed so far
    nTasks,         \* requests started so far
    task            \* the request in flight: its locals and its position

vars == << branches, files, pulls, contactsExists, contacts, notifications,
           persons, mechs, orgs, relationships, attributes, faults, nTasks, task >>

gitea == << branches, files, pulls >>
moqui == << persons, mechs, orgs, relationships, attributes >>
opensearch == << contactsExists, contacts, notifications >>

\* ----------------------------------------------------------------- helpers
Range(s) == { s[i] : i \in DOMAIN s }

IdleTask ==
    [ id |-> 0, kind |-> "idle", pc |-> "idle", input |-> Null,
      requestId |-> NoValue, contact |-> Null, branch |-> NoValue,
      submissionId |-> NoValue, pr |-> Null, err |-> NoValue, thrown |-> NoValue,
      resp |-> 0, body |-> Null, calls |-> << >>,
      contactData |-> Null, partyId |-> NoValue, moquiResult |-> Null,
      mechFailed |-> FALSE, handler |-> NoValue ]

\* A request may start when none is in flight.
CanStart == task.pc \in {"idle", "done"} /\ nTasks < MaxTasks

\* How an adapter call can end: it succeeds (TRUE) or fails (FALSE).
CallOutcomes == IF faults < MaxFaults THEN {TRUE, FALSE} ELSE {TRUE}

\* n more adapter calls failed.
Faulted(n) == faults' = faults + n
Fault(ok) == Faulted(IF ok THEN 0 ELSE 1)

\* The handler issued adapter call `op` on `arg`; `ok` is how the call ended.
Called(t, op, arg, ok) ==
    [t EXCEPT !.calls = Append(@, [op |-> op, arg |-> arg, ok |-> ok])]

CallIndex(t, op) == { i \in DOMAIN t.calls : t.calls[i].op = op }
CountCalls(t, op) == Cardinality(CallIndex(t, op))

\* ------------------------------------------------- POST /contacts: inputs
FullNames == {"", "Jane Roe"}
Emails == {"not-an-email", "jane@x.com"}
Companies == {NoValue, "Acme"}
RequestIdHeaders == {NoValue, "rid-7"}

\* Request bodies of POST /contacts. contactId is a key the submission
\* schema does not know, nickname one that neither schema knows.
SubmissionBodies ==
    [ fullName : FullNames, emailAddress : Emails, company : Companies,
      contactId : {NoValue, "c-supplied"}, nickname : {NoValue, "JR"} ]

\* The bodies submitted to the pipeline: the valid ones, one with an empty
\* name, one with an empty name and a malformed address, and one with an
\* unknown key.
PipelineBodies ==
    { b \in SubmissionBodies :
        /\ b.contactId = NoValue
        /\ (b.emailAddress # "jane@x.com" => b.fullName = "")
        /\ (b.fullName = "" => b.company = NoValue /\ b.nickname = NoValue)
        /\ (b.nickname # NoValue => b.company = NoValue) }

\* contactSubmissionSchema.validate(req.body): Joi's default options abort
\* at the first failing key and do not allow unknown keys.
SubmissionErrors(b) ==
    (IF b.fullName = "" THEN << "\"fullName\" is not allowed to be empty" >> ELSE << >>)
    \o (IF b.emailAddress = "not-an-email"
          THEN << "\"emailAddress\" must be a valid email" >> ELSE << >>)
    \o (IF b.contactId # NoValue THEN << "\"contactId\" is not allowed" >> ELSE << >>)
    \o (IF b.nickname # NoValue THEN << "\"nickname\" is not allowed" >> ELSE << >>)

contactSubmissionSchema(b) ==
    LET all == SubmissionErrors(b)
    IN  IF all = << >>
          THEN [ error |-> FALSE, details |-> << >> ]
          ELSE [ error |-> TRUE,  details |-> << Head(all) >> ]

\* A property of a JS object; undefined when the object has no such key.
Field(obj, key) == IF key \in DOMAIN obj THEN obj[key] ELSE NoValue

Truthy(v) == v \notin {NoValue, ""}

\* The addresses Joi's email rule accepts among those of the model: the
\* form's valid address and the addresses the complete-flow test builds.
ValidEmails ==
    {"jane@x.com"}
      \cup { "flane.test.test-" \o ToString(n) \o "@hooli.com" : n \in 1..MaxTasks }
ContactMethods == {"email", "phone", "mail"}

\* The object transformToCdmContact builds from the form data: a supplied
\* contactId is kept, else a fresh uuid; fullName falls back to the trimmed
\* first and last name (empty when there is none), preferredContactMethod to
\* "email", customFields to the empty object. It carries no pipeline state.
cdmData(formData, fresh) ==
    [ contactId    |-> IF Truthy(Field(formData, "contactId"))
                         THEN formData.contactId ELSE fresh,
      fullName     |-> IF Truthy(Field(formData, "fullName"))
                         THEN formData.fullName ELSE "",
      emailAddress |-> Field(formData, "emailAddress"),
      company      |-> Field(formData, "company"),
      preferredContactMethod |->
                       IF Truthy(Field(formData, "preferredContactMethod"))
                         THEN formData.preferredContactMethod ELSE "email",
      customFields |-> << >> ]

\* The messages of cdmContactSchema for `data`, one per failing key, in the
\* order of the schema.
CdmErrors(data) ==
    (IF data.fullName = ""
       THEN << << "fullName", "is not allowed to be empty" >> >> ELSE << >>)
    \o (IF data.emailAddress = NoValue
          THEN << << "emailAddress", "is required" >> >>
          ELSE IF data.emailAddress \notin ValidEmails
            THEN << << "emailAddress", "must be a valid email" >> >> ELSE << >>)
    \o (IF data.preferredContactMethod \notin ContactMethods
          THEN << << "preferredContactMethod", "must be one of [email, phone, mail]" >> >>
          ELSE << >>)

\* validateCdmContact with Joi's default abortEarly.
validateCdmContactAbortEarly(data) ==
    LET all == CdmErrors(data)
    IN  IF all = << >>
          THEN [ error |-> FALSE, message |-> << >>, value |-> data ]
          ELSE [ error |-> TRUE, message |-> << Head(all) >>, value |-> Null ]

\* validateCdmContact: validates with abortEarly: false and raises one
\* Error whose message joins the messages of all failing keys; returns the
\* value when there is none.
validateCdmContact(data) ==
    LET all == CdmErrors(data)
    IN  IF all = << >>
          THEN [ error |-> FALSE, message |-> << >>, value |-> data ]
          ELSE [ error |-> TRUE, message |-> all, value |-> Null ]

\* transformToCdmContact: the validated object, or the error raised.
transformToCdmContact(formData, fresh) == validateCdmContact(cdmData(formData, fresh))

\* uuidv4(): a value no earlier call returned.
uuidv4(n) == "uuid-" \o ToString(n)

\* generateBranchName("contact", contactId.substr(0, 8)): type, short id and
\* the current time. The identifiers of the model are at most 8 characters
\* long, so substr(0, 8) keeps them whole.
generateBranchName(contactId, now) == "contact-" \o contactId \o "-" \o ToString(now)

\* Title and body of the pull request commitCdmData opens. The title is the
\* prefix followed by the name; the body is kept as its labelled lines.
PullRequestTitle(c) == << "Add Contact: ", c.fullName >>
PullRequestBody(c) ==
    << << "**Contact ID:** ", c.contactId >>,
       << "**Name:** ", c.fullName >>,
       << "**Email:** ", c.emailAddress >>,
       << "**Company:** ", IF c.company \in {NoValue, ""} THEN "N/A" ELSE c.company >> >>

DataFilePath(contactId) == "data/contacts/" \o contactId \o ".json"
MetadataFilePath(submissionId) == "metadata/submissions/" \o submissionId \o ".json"

\* --------------------------------------------------------------- initial
Init ==
    /\ branches = {"main"}
    /\ files = {}
    /\ pulls = << >>
    /\ contactsExists = TRUE
    /\ contacts = [id \in {} |-> Null]
    /\ notifications = << >>
    /\ persons = {}
    /\ mechs = {}
    /\ orgs = {}
    /\ relationships = {}
    /\ attributes = {}
    /\ faults = 0
    /\ nTasks = 0
    /\ task = IdleTask

\* ------------------------------------------------ POST /contacts: handler
\* Up to the first await: request id, validation, transform, and the
\* synchronous head of commitCdmData (the branch name).
SubmitContact(b, hdr) ==
    /\ CanStart
    /\ LET rid == IF hdr # NoValue THEN hdr ELSE "req-" \o ToString(nTasks + 1)
           v   == contactSubmissionSchema(b)
           tr  == transformToCdmContact(b, uuidv4(nTasks + 1))
           c   == tr.value
           t0  == [IdleTask EXCEPT !.id = nTasks + 1, !.kind = "submit",
                                   !.input = b, !.requestId = rid]
       IN  task' = IF v.error
                     THEN [t0 EXCEPT !.pc = "done", !.resp = 400,
                             !.body = [ success |-> FALSE, details |-> v.details,
                                        requestId |-> rid ]]
                   ELSE IF tr.error
                     THEN [t0 EXCEPT !.pc = "done", !.resp = 500,
                             !.thrown = "CDM Contact validation failed",
                             !.body = [ success |-> FALSE,
                                        error |-> "Internal server error",
                                        requestId |-> rid ]]
                     ELSE [t0 EXCEPT !.pc = "ensureRepository", !.contact = c,
                             !.branch = generateBranchName(c.contactId, nTasks + 1),
                             !.submissionId = "sub-" \o ToString(nTasks + 1)]
    /\ nTasks' = nTasks + 1
    /\ UNCHANGED << gitea, opensearch, moqui, faults >>

\* CommitNext with a failed metadata commit logged and not raised.
CommitNextIgnoresFailure(pc, ok) ==
    IF ~ok /\ pc # "commitMetadataFile" THEN "deleteBranch"
    ELSE CASE pc = "ensureRepository"  -> "createBranch"
           [] pc = "createBranch"      -> "commitDataFile"
           [] pc = "commitDataFile"    -> "commitMetadataFile"
           [] pc = "commitMetadataFile" -> "createPullRequest"
           [] pc = "createPullRequest" -> "indexContact"

\* CommitNext with a failed ensureRepository tried again.
CommitNextRetries(pc, ok) ==
    IF ~ok THEN (IF pc = "ensureRepository" THEN pc ELSE "deleteBranch")
    ELSE CASE pc = "ensureRepository"  -> "createBranch"
           [] pc = "createBranch"      -> "commitDataFile"
           [] pc = "commitDataFile"    -> "commitMetadataFile"
           [] pc = "commitMetadataFile" -> "createPullRequest"
           [] pc = "createPullRequest" -> "indexContact"

\* Where commitCdmData goes after the call at `pc` ended: the next call of
\* the try block, the catch block (deleteBranch) on any failure, or back to
\* the route, which indexes the contact.
CommitNext(pc, ok) ==
    IF ~ok THEN "deleteBranch"
    ELSE CASE pc = "ensureRepository"  -> "createBranch"
           [] pc = "createBranch"      -> "commitDataFile"
           [] pc = "commitDataFile"    -> "commitMetadataFile"
           [] pc = "commitMetadataFile" -> "createPullRequest"
           [] pc = "createPullRequest" -> "indexContact"

\* What the call at t.pc of commitCdmData's try block is made on.
CommitArgument(t) ==
    CASE t.pc = "ensureRepository"   -> NoValue
      [] t.pc = "createBranch"       -> t.branch
      [] t.pc = "commitDataFile"     -> DataFilePath(t.contact.contactId)
      [] t.pc = "commitMetadataFile" -> MetadataFilePath(t.submissionId)
      [] t.pc = "createPullRequest"  -> t.branch

\* One call of commitCdmData's try block ended with outcome `ok`.
CommitAdvance(t, ok) ==
    LET t1 == Called(t, t.pc, CommitArgument(t), ok)
    IN  [t1 EXCEPT !.pc = CommitNext(t.pc, ok),
                   !.err = IF ok THEN @ ELSE "Error: " \o t.pc \o " failed"]

\* ensureRepository(): the repository is there or is created; any other
\* answer of the host is raised.
EnsureRepository ==
    /\ task.pc = "ensureRepository"
    /\ \E ok \in CallOutcomes : task' = CommitAdvance(task, ok) /\ Fault(ok)
    /\ UNCHANGED << gitea, opensearch, moqui, nTasks >>

\* createBranch(branchName): 422 (the branch exists) is answered as success
\* without creating anything; any other failure is raised.
CreateBranch ==
    /\ task.pc = "createBranch"
    /\ \E ok \in CallOutcomes :
         /\ Fault(ok)
         /\ task' = CommitAdvance(task, ok)
         /\ branches' = IF ok THEN branches \cup {task.branch} ELSE branches
    /\ UNCHANGED << files, pulls, opensearch, moqui, nTasks >>

\* commitFile(path, ..., branch): reads the file for its sha, then updates
\* (PUT) or creates (POST) it; a failure of either request is raised.
commitFile(path, ok) ==
    /\ Fault(ok)
    /\ task' = CommitAdvance(task, ok)
    /\ files' = IF ok THEN files \cup { << task.branch, path >> } ELSE files
    /\ UNCHANGED << branches, pulls, opensearch, moqui, nTasks >>

CommitDataFile ==
    /\ task.pc = "commitDataFile"
    /\ \E ok \in CallOutcomes : commitFile(DataFilePath(task.contact.contactId), ok)

CommitMetadataFile ==
    /\ task.pc = "commitMetadataFile"
    /\ \E ok \in CallOutcomes : commitFile(MetadataFilePath(task.submissionId), ok)

\* createPullRequest(title, head, "main", body).
CreatePullRequest ==
    /\ task.pc = "createPullRequest"
    /\ \E ok \in CallOutcomes :
         LET pr == [ number |-> Len(pulls) + 1,
                     title  |-> PullRequestTitle(task.contact),
                     body   |-> PullRequestBody(task.contact),
                     head   |-> task.branch ]
         IN  /\ Fault(ok)
             /\ task' = [CommitAdvance(task, ok) EXCEPT !.pr = IF ok THEN pr ELSE @]
             /\ pulls' = IF ok THEN Append(pulls, pr) ELSE pulls
    /\ UNCHANGED << branches, files, opensearch, moqui, nTasks >>

\* What the route answers when commitCdmData or indexContact raised.
SubmitFailure(t, error) ==
    [t EXCEPT !.pc = "done", !.thrown = error, !.resp = 500,
              !.body = [ success |-> FALSE, error |-> "Internal server error",
                         requestId |-> t.requestId ]]

\* CleanupRaises with a failure of deleteBranch raised in place of the
\* caught error.
CleanupRaisesLast(caught, cleanupOk) ==
    IF cleanupOk THEN caught ELSE "Error: deleteBranch failed"

\* The error commitCdmData's catch block raises after the cleanup: the one
\* it caught.
CleanupRaises(caught, cleanupOk) == caught

\* The catch block of commitCdmData: deleteBranch(branchName), whose own
\* failure is logged, then the caught error is raised again; the route
\* answers 500.
DeleteBranchCleanup ==
    /\ task.pc = "deleteBranch"
    /\ \E ok \in IF task.branch \in branches THEN CallOutcomes ELSE {FALSE} :
         /\ Faulted(IF task.branch \in branches /\ ~ok THEN 1 ELSE 0)
         /\ task' = SubmitFailure(Called(task, "deleteBranch", task.branch, ok),
                                  CleanupRaises(task.err, ok))
         /\ branches' = IF ok THEN branches \ {task.branch} ELSE branches
         /\ files' = IF ok THEN { f \in files : f[1] # task.branch } ELSE files
    /\ UNCHANGED << pulls, opensearch, moqui, nTasks >>

\* IndexedDocument with a contactId generated anew for the stored document.
IndexedDocumentRekeyed(c) == [c EXCEPT !.contactId = uuidv4(0)]

\* The document indexContact writes: the contact as it is, under its id.
IndexedDocument(c) == c

\* What the route answers after indexContact succeeded.
SubmitSuccess(t) ==
    [t EXCEPT !.pc = "done", !.resp = 201,
              !.body = [ success |-> TRUE, contactId |-> t.contact.contactId,
                         status |-> "pending_review", branchName |-> t.branch,
                         pullRequestId |-> t.pr.number, indexed |-> TRUE,
                         requestId |-> t.requestId ]]

\* BranchesAfterIndex with the branch deleted when indexing failed.
BranchesAfterIndexCompensated(ok) ==
    IF ok THEN branches ELSE branches \ {task.branch}

\* BranchesAfterIndex with the branch deleted once the record is indexed.
BranchesAfterIndexMerged(ok) ==
    IF ok THEN branches \ {task.branch} ELSE branches

\* The branches of the host after indexContact ended: the route's catch
\* block calls nothing on the host.
BranchesAfterIndex(ok) == branches

\* indexContact(cdmContact), then the 201 response; a failure is answered
\* 500 by the route's catch block.
IndexContact ==
    /\ task.pc = "indexContact"
    /\ \E ok \in CallOutcomes :
         LET t1 == Called(task, "indexContact", task.contact.contactId, ok)
             id == task.contact.contactId
         IN  /\ Fault(ok)
             /\ branches' = BranchesAfterIndex(ok)
             /\ IF ok
                  THEN /\ task' = SubmitSuccess(t1)
                       /\ contacts' = [ k \in DOMAIN contacts \cup {id} |->
                                          IF k = id THEN IndexedDocument(task.contact)
                                                    ELSE contacts[k] ]
                       /\ contactsExists' = TRUE
                  ELSE /\ task' = SubmitFailure(t1, "Error: indexContact failed")
                       /\ UNCHANGED << contacts, contactsExists >>
    /\ UNCHANGED << files, pulls, notifications, moqui, nTasks >>

Submission ==
    \/ \E b \in PipelineBodies, hdr \in RequestIdHeaders :
         \* the header is supplied with the bodies that name a company
         /\ (hdr # NoValue <=> b.company # NoValue)
         /\ SubmitContact(b, hdr)
    \/ EnsureRepository
    \/ CreateBranch
    \/ CommitDataFile
    \/ CommitMetadataFile
    \/ CreatePullRequest
    \/ DeleteBranchCleanup
    \/ IndexContact

\* ------------------------------------------------------- notifications
\* How one sendNotification call can end:
\*   "sent"         the document is stored, the console channel is fulfilled
\*                  and the final update stores status sent;
\*   "failed"       the final update fails, the catch block's update stores
\*                  status failed, {success: false} is returned;
\*   "throwPending" both updates fail: the document stays pending and the
\*                  catch block's error is raised;
\*   "throwNoDoc"   the first index call fails: nothing is stored, and the
\*                  catch block's update of the missing document is raised.
NotificationOutcomes == {"sent", "failed", "throwPending", "throwNoDoc"}

NotificationThrows(o) == o \in {"throwPending", "throwNoDoc"}

\* The store calls that fail in each outcome, for a reason of their own.
NotificationFaults(o) ==
    CASE o = "sent" -> 0 [] o = "failed" -> 1 [] o = "throwNoDoc" -> 1
      [] o = "throwPending" -> 2

\* The notifications index after sendNotification(n) ended with outcome o.
sendNotification(n, o) ==
    IF o = "throwNoDoc" THEN notifications
    ELSE Append(notifications,
                [ id |-> "notif-" \o ToString(task.id),
                  type |-> n.type, metadata |-> n.metadata, task |-> task.id,
                  status |-> CASE o = "sent" -> "sent"
                               [] o = "failed" -> "failed"
                               [] o = "throwPending" -> "pending" ])

\* ------------------------------------------------------------- webhooks
\* Payloads of the pull requests the host holds, and of a pull request that
\* no submission opened.
ForeignPullRequest ==
    [ number |-> 99, title |-> << "Update README", "" >>, body |-> << >>,
      head |-> "readme" ]

PullRequestPayloads(mergedValues) ==
    { [ pr |-> p, merged |-> m ] :
        p \in Range(pulls) \cup {ForeignPullRequest}, m \in mergedValues }

Repository == [ name |-> "cdm-data" ]

WebhookEvents ==
    { [ action |-> "deleted", pull_request |-> Null, repository |-> r ] :
        r \in {Null, Repository} }
    \cup { [ action |-> "closed", pull_request |-> p, repository |-> Repository ] :
             p \in PullRequestPayloads(BOOLEAN) }
    \cup { [ action |-> "opened", pull_request |-> p, repository |-> Repository ] :
             p \in PullRequestPayloads({FALSE}) }
    \cup { [ action |-> "synchronized", repository |-> Repository,
              pull_request |-> [ pr |-> ForeignPullRequest, merged |-> FALSE ] ] }
    \cup { [ action |-> "labeled", repository |-> Repository,
              pull_request |-> [ pr |-> ForeignPullRequest, merged |-> FALSE ] ] }

\* A request with an empty body: express.json leaves req.body = {} and
\* rawBodySaver does not set req.rawBody.
EmptyEvent == [ action |-> NoValue, pull_request |-> Null, repository |-> Null ]

\* createHmac("sha256", secret).update(payload).digest("hex")
HmacSha256Hex(secret, payload) ==
    [ hex |-> << secret, payload >>, len |-> DigestLen ]

\* Values of the x-gitea-signature header: none, the right digest, the
\* digest under another secret, and a string of another length.
SignatureHeaders(rawBody) ==
    { Null,
      HmacSha256Hex(WEBHOOK_SECRET, rawBody),
      HmacSha256Hex("another-secret", rawBody),
      [ hex |-> << "abc" >>, len |-> 3 ] }

\* crypto.timingSafeEqual(a, b): raises RangeError when the byte lengths
\* differ, else compares the contents.
timingSafeEqual(a, b) ==
    IF a.len # b.len THEN "RangeError"
    ELSE IF a.hex = b.hex THEN "equal" ELSE "different"

\* verifyWebhookSignature: "next", a 401 it answers itself, or the error it
\* raises into the framework (update(undefined) is a TypeError).
verifyWebhookSignature(signature, rawBody) ==
    IF signature = Null THEN "401"
    ELSE IF rawBody = Null THEN "TypeError"
    ELSE LET r == timingSafeEqual(signature, HmacSha256Hex(WEBHOOK_SECRET, rawBody))
         IN  CASE r = "RangeError" -> "RangeError"
               [] r = "different"  -> "401"
               [] r = "equal"      -> "next"

\* The value the labelled line of the body carries (/\*\*Label:\*\* (.+)/),
\* or null when the body has no such line.
BodyMatch(body, label) ==
    IF \E i \in DOMAIN body : body[i][1] = label /\ body[i][2] # ""
      THEN LET i == CHOOSE j \in DOMAIN body :
                      /\ body[j][1] = label /\ body[j][2] # ""
                      /\ \A k \in DOMAIN body :
                           (body[k][1] = label /\ body[k][2] # "") => j <= k
           IN  body[i][2]
      ELSE NoValue

\* extractContactDataFromPR: null unless the title matches
\* /Add Contact: (.+)/, else the name of the title and the values of the
\* Contact ID, Email and Company lines of the body.
extractContactDataFromPR(pr) ==
    IF pr.title[1] # "Add Contact: " \/ pr.title[2] = "" THEN Null
    ELSE [ fullName     |-> pr.title[2],
           emailAddress |-> BodyMatch(pr.body, "**Email:** "),
           company      |-> BodyMatch(pr.body, "**Company:** "),
           contactId    |-> BodyMatch(pr.body, "**Contact ID:** ") ]

\* WebhookHandler with every closed pull request taken for a merged one.
WebhookHandlerAnyClosed(ev) ==
    IF ev.action = "deleted" /\ ev.repository # Null
      THEN "handleRepositoryDeleted"
    ELSE IF ev.pull_request # Null /\ ev.action = "closed"
      THEN "handlePullRequestMerged"
    ELSE IF ev.pull_request # Null /\ ev.action = "opened"
      THEN "handlePullRequestOpened"
    ELSE IF ev.pull_request # Null /\ ev.action = "synchronized"
      THEN "handlePullRequestUpdated"
    ELSE "none"

\* The handler router.post("/gitea") runs for an event.
WebhookHandler(ev) ==
    IF ev.action = "deleted" /\ ev.repository # Null
      THEN "handleRepositoryDeleted"
    ELSE IF ev.pull_request # Null /\ ev.action = "closed" /\ ev.pull_request.merged
      THEN "handlePullRequestMerged"
    ELSE IF ev.pull_request # Null /\ ev.action = "opened"
      THEN "handlePullRequestOpened"
    ELSE IF ev.pull_request # Null /\ ev.action = "synchronized"
      THEN "handlePullRequestUpdated"
    ELSE "none"

WebhookOk(t) ==
    [t EXCEPT !.pc = "done", !.resp = 200,
              !.body = [ success |-> TRUE, message |-> "Webhook processed successfully" ]]

WebhookFailure(t, error) ==
    [t EXCEPT !.pc = "done", !.resp = 500, !.thrown = error,
              !.body = [ success |-> FALSE, error |-> "Webhook processing failed" ]]

\* POST /gitea up to the first adapter call: the signature middleware, the
\* dispatch, and for pull-request handlers the extraction of contact data.
GiteaWebhook(ev, rawBody, signature) ==
    /\ CanStart
    /\ LET t0 == [IdleTask EXCEPT !.id = nTasks + 1, !.kind = "webhook",
                     !.input = [ event |-> ev, rawBody |-> rawBody,
                                 signature |-> signature ]]
           v  == verifyWebhookSignature(signature, rawBody)
           h  == WebhookHandler(ev)
           t1 == [t0 EXCEPT !.handler = h]
           cd == extractContactDataFromPR(ev.pull_request.pr)
       IN  task' =
             CASE v = "401"  -> [t0 EXCEPT !.pc = "done", !.resp = 401]
               [] v \in {"RangeError", "TypeError"} ->
                     [t0 EXCEPT !.pc = "done", !.thrown = v]
               [] v = "next" /\ h = "none" -> WebhookOk(t1)
               [] v = "next" /\ h = "handleRepositoryDeleted" ->
                     [t1 EXCEPT !.pc = "ResetContactIndices"]
               [] v = "next" /\ h = "handlePullRequestMerged" ->
                     IF cd = Null THEN WebhookOk(t1)
                     ELSE [t1 EXCEPT !.pc = "createPerson", !.contactData = cd,
                                     !.pr = ev.pull_request.pr]
               [] v = "next" /\ h \in {"handlePullRequestOpened",
                                       "handlePullRequestUpdated"} ->
                     [t1 EXCEPT !.pc = "sendNotification", !.contactData = cd,
                                !.pr = ev.pull_request.pr]
    /\ nTasks' = nTasks + 1
    /\ UNCHANGED << gitea, opensearch, moqui, faults >>

\* ------------------------------------------- propagation: createContact
\* The contact mechanisms createContact posts for contactData.
ContactMechs(cd) ==
    (IF Truthy(Field(cd, "emailAddress")) THEN {"CmtEmailAddress"} ELSE {})
    \cup (IF Truthy(Field(cd, "phoneNumber")) THEN {"CmtTelecomNumber"} ELSE {})
    \cup (IF Truthy(Field(cd, "addressLine1")) \/ Truthy(Field(cd, "city"))
            THEN {"CmtPostalAddress"} ELSE {})

\* The attributes addCustomAttributes posts, in order.
CustomAttributes(cd) ==
    (IF Truthy(Field(cd, "notes")) THEN << "notes" >> ELSE << >>)
    \o (IF Truthy(Field(cd, "department")) THEN << "department" >> ELSE << >>)
    \o (IF Truthy(Field(cd, "preferredContactMethod"))
          THEN << "preferredContactMethod" >> ELSE << >>)

\* if (contactData.customFields || contactData.notes): an object, even an
\* empty one, is truthy.
WantsAttributes(cd) == "customFields" \in DOMAIN cd \/ Truthy(Field(cd, "notes"))

\* The step of createContact that follows the step `pc`.
CreateContactNext(pc, cd) ==
    LET fromAttrs == IF WantsAttributes(cd) THEN "addCustomAttributes" ELSE "return"
        fromEmpl  == IF Truthy(Field(cd, "company")) THEN "addEmploymentInfo" ELSE fromAttrs
        fromMechs == IF ContactMechs(cd) # {} THEN "contactMechs" ELSE fromEmpl
    IN  CASE pc = "createPerson"        -> fromMechs
          [] pc = "contactMechs"        -> fromEmpl
          [] pc = "addEmploymentInfo"   -> fromAttrs
          [] pc = "addCustomAttributes" -> "return"

\* createContact returned `result` to its caller. The merge handler raises
\* when the result is a failure and its catch block raises again, so the
\* route answers 500; the re-sync route updates the index either way.
CreateContactReturn(t, result) ==
    LET t1 == [t EXCEPT !.moquiResult = result]
    IN  IF t.kind = "webhook" /\ ~result.success
          THEN WebhookFailure(t1, "Moqui integration failed")
          ELSE [t1 EXCEPT !.pc = "updateContact"]

\* The step `pc` of createContact ended without raising.
CreateContactAdvance(t, pc) ==
    LET nxt == CreateContactNext(pc, t.contactData)
    IN  IF nxt = "return"
          THEN CreateContactReturn(t, [ success |-> TRUE, moquiId |-> t.partyId ])
          ELSE [t EXCEPT !.pc = nxt]

\* POST /persons; a failure is caught and returned as {success: false}.
CreatePerson ==
    /\ task.pc = "createPerson"
    /\ \E ok \in CallOutcomes :
         LET pid == "PERSON_" \o ToString(task.id)
             t1  == Called(task, "POST /persons", task.contactData.fullName, ok)
         IN  /\ Fault(ok)
             /\ IF ok
               THEN /\ persons' = persons \cup
                          { [ partyId |-> pid, fullName |-> task.contactData.fullName,
                              forContact |-> task.contactData.contactId ] }
                    /\ task' = CreateContactAdvance([t1 EXCEPT !.partyId = pid],
                                                    "createPerson")
               ELSE /\ persons' = persons
                    /\ task' = CreateContactReturn(t1,
                                 [ success |-> FALSE, error |-> "POST /persons failed" ])
    /\ UNCHANGED << gitea, opensearch, mechs, orgs, relationships, attributes, nTasks >>

\* await Promise.all(contactPromises): every call was issued; a rejected one
\* rejects the join, which the catch block returns as {success: false}.
CreateContactMechs ==
    /\ task.pc = "contactMechs"
    /\ \E failed \in SUBSET ContactMechs(task.contactData) :
         LET t1 == Called(task, "POST /contactMechs", task.partyId, failed = {})
         IN  /\ faults + Cardinality(failed) <= MaxFaults
             /\ Faulted(Cardinality(failed))
             /\ mechs' = mechs \cup
                   { [ partyId |-> task.partyId, type |-> m ] :
                       m \in ContactMechs(task.contactData) \ failed }
             /\ task' = IF failed = {}
                          THEN CreateContactAdvance(t1, "contactMechs")
                          ELSE CreateContactReturn([t1 EXCEPT !.mechFailed = TRUE],
                                 [ success |-> FALSE,
                                   error |-> "POST /contactMechs failed" ])
    /\ UNCHANGED << gitea, opensearch, persons, orgs, relationships, attributes, nTasks >>

\* String.prototype.includes on lower-cased names, for the names of the model.
Includes(name, part) ==
    \/ part = ""
    \/ name = part
    \/ << name, part >> \in { << "Acme Corp", "Acme" >>, << "Acme Corp", "Corp" >> }

\* GET /organizations?organizationName=q of the mock: the organizations
\* whose name includes q.
SearchOrganizations(q) == { o \in orgs : Includes(o.organizationName, q) }

\* addEmploymentInfo: find or create the organization, post the employment
\* relationship; whatever fails is logged and not raised.
AddEmploymentInfo ==
    /\ task.pc = "addEmploymentInfo"
    /\ LET company == task.contactData.company
           found   == SearchOrganizations(company)
           newOrg  == [ partyId |-> "ORG_" \o ToString(task.id),
                        organizationName |-> company ]
       IN  \E outcome \in {"searchFailed", "createFailed", "relationshipFailed", "ok"} :
             \E org \in IF found # {} THEN found ELSE {newOrg} :
               /\ (outcome = "createFailed" => found = {})
               /\ (outcome # "ok" => faults < MaxFaults)
               /\ Fault(outcome = "ok")
               /\ orgs' = IF found = {} /\ outcome \in {"relationshipFailed", "ok"}
                            THEN orgs \cup {newOrg} ELSE orgs
               /\ relationships' =
                     IF outcome = "ok"
                       THEN relationships \cup
                              { [ fromPartyId |-> task.partyId, toPartyId |-> org.partyId ] }
                       ELSE relationships
               /\ task' = CreateContactAdvance(
                            Called(task, "addEmploymentInfo", task.partyId, outcome = "ok"),
                            "addEmploymentInfo")
    /\ UNCHANGED << gitea, opensearch, persons, mechs, attributes, nTasks >>

\* addCustomAttributes: posts the attributes one after the other; the first
\* failure ends the loop, is logged and not raised.
AddCustomAttributes ==
    /\ task.pc = "addCustomAttributes"
    /\ LET attrs == CustomAttributes(task.contactData)
       IN  \E n \in 0 .. Len(attrs) :
             /\ (n < Len(attrs) => faults < MaxFaults)
             /\ Fault(n = Len(attrs))
             /\ attributes' = attributes \cup
                   { [ partyId |-> task.partyId, attrName |-> attrs[i] ] : i \in 1 .. n }
             /\ task' = CreateContactAdvance(
                          Called(task, "addCustomAttributes", task.partyId, n = Len(attrs)),
                          "addCustomAttributes")
    /\ UNCHANGED << gitea, opensearch, persons, mechs, orgs, relationships, nTasks >>

\* ------------------------------------------------ index update and after
\* MergePatch with the stored document replaced by the patch.
MergePatchReplace(doc, patch) == patch

\* client.update({id, body: {doc}}): the fields of the patch replace or
\* extend those of the stored document.
MergePatch(doc, patch) ==
    [ k \in DOMAIN doc \cup DOMAIN patch |->
        IF k \in DOMAIN patch THEN patch[k] ELSE doc[k] ]

\* WebhookSyncedPatch without the remote id.
WebhookSyncedPatchNoId(result) == [ syncStatus |-> "synced" ]

\* The patch the merge handler writes after a successful propagation.
WebhookSyncedPatch(result) ==
    [ moquiId |-> result.moquiId, syncStatus |-> "synced" ]

\* ManualSyncPatch with a failed propagation leaving the stored state alone.
ManualSyncPatchSilent(result) ==
    IF result.success
      THEN [ moquiId |-> result.moquiId, syncStatus |-> "synced",
             lastSyncType |-> "manual" ]
      ELSE [ lastSyncType |-> "manual" ]

\* The patches of the re-sync route.
ManualSyncPatch(result) ==
    IF result.success
      THEN [ moquiId |-> result.moquiId, syncStatus |-> "synced",
             lastSyncType |-> "manual" ]
      ELSE [ syncStatus |-> "failed", syncError |-> result.error,
             lastSyncType |-> "manual" ]

ManualSyncAnswer(t, status) ==
    [t EXCEPT !.pc = "done", !.resp = status,
              !.body = [ success |-> status = 200, contactId |-> t.input.contactId ]]

\* The doc updateContact sends: {...updateData, modifiedOn: now}.
updateDoc(updateData, now) ==
    [ k \in DOMAIN updateData \cup {"modifiedOn"} |->
        IF k = "modifiedOn" THEN now ELSE updateData[k] ]

\* updateContact(contactId, patch) by the merge handler or the re-sync
\* route, at the time of the request's number. The store rejects an update
\* of a document it does not hold.
UpdateContact ==
    /\ task.pc = "updateContact"
    /\ LET id    == task.contactData.contactId
           patch == IF task.kind = "webhook"
                      THEN WebhookSyncedPatch(task.moquiResult)
                      ELSE ManualSyncPatch(task.moquiResult)
           held  == contactsExists /\ id \in DOMAIN contacts
       IN  \E ok \in IF held THEN CallOutcomes ELSE {FALSE} :
             LET t1 == Called(task, "updateContact", id, ok)
             IN  /\ Faulted(IF held /\ ~ok THEN 1 ELSE 0)
                 /\ contacts' = IF ok
                                  THEN [contacts EXCEPT ![id] =
                                          MergePatch(@, updateDoc(patch, task.id))]
                                  ELSE contacts
                 /\ task' =
                      IF task.kind = "webhook"
                        THEN IF ok THEN [t1 EXCEPT !.pc = "sendNotification"]
                                   ELSE WebhookFailure(t1, "Error: updateContact failed")
                        ELSE IF ok /\ task.moquiResult.success
                               THEN ManualSyncAnswer(t1, 200)
                               ELSE ManualSyncAnswer(
                                      [t1 EXCEPT !.thrown =
                                          IF ok THEN @ ELSE "Error: updateContact failed"],
                                      500)
    /\ UNCHANGED << gitea, contactsExists, notifications, moqui, nTasks >>

\* The notification each webhook handler sends.
HandlerNotification(t) ==
    CASE t.handler = "handlePullRequestMerged" ->
           [ type |-> "contact_synced",
             metadata |-> [ contactId |-> t.contactData.contactId,
                            moquiId |-> t.moquiResult.moquiId,
                            pullRequestNumber |-> t.pr.number ] ]
      [] t.handler = "handlePullRequestOpened" ->
           [ type |-> "review_requested",
             metadata |-> [ pullRequestNumber |-> t.pr.number ] ]
      [] t.handler = "handlePullRequestUpdated" ->
           [ type |-> "review_updated",
             metadata |-> [ pullRequestNumber |-> t.pr.number ] ]
      [] t.handler = "handleRepositoryDeleted" ->
           [ type |-> "repository_deleted",
             metadata |-> [ repositoryName |-> t.input.event.repository.name ] ]

\* ContactsAfterNotification with the synced state taken back when the
\* notification of the merge handler raised.
ContactsAfterNotificationRolledBack(o) ==
    LET id == task.contactData.contactId
    IN  IF /\ NotificationThrows(o)
           /\ task.handler = "handlePullRequestMerged"
           /\ id \in DOMAIN contacts
          THEN [contacts EXCEPT ![id] = MergePatch(@, [ syncStatus |-> "failed" ])]
          ELSE contacts

\* The contacts index after a handler's sendNotification call ended: no
\* handler touches it, whatever the outcome.
ContactsAfterNotification(o) == contacts

\* The handler's sendNotification call and the route's answer. Only
\* handlePullRequestOpened catches what sendNotification raises.
SendNotification ==
    /\ task.pc = "sendNotification"
    /\ \E o \in NotificationOutcomes :
         LET t1 == Called(task, "sendNotification", HandlerNotification(task).type, ~NotificationThrows(o))
         IN  /\ faults + NotificationFaults(o) <= MaxFaults
             /\ Faulted(NotificationFaults(o))
             /\ notifications' = sendNotification(HandlerNotification(task), o)
             /\ task' = IF NotificationThrows(o)
                             /\ task.handler # "handlePullRequestOpened"
                          THEN WebhookFailure(t1, "Error: sendNotification failed")
                          ELSE WebhookOk(t1)
             /\ contacts' = ContactsAfterNotification(o)
    /\ UNCHANGED << gitea, contactsExists, moqui, nTasks >>

\* handleRepositoryDeleted: ResetContactIndices deletes the contacts index
\* when it exists; a failure is raised and answered 500.
ResetContactIndices ==
    /\ task.pc = "ResetContactIndices"
    /\ \E ok \in CallOutcomes :
         LET t1 == Called(task, "ResetContactIndices", NoValue, ok)
         IN  /\ Fault(ok)
             /\ IF ok
               THEN /\ contactsExists' = FALSE
                    /\ contacts' = [ id \in {} |-> Null ]
                    /\ task' = [t1 EXCEPT !.pc = "sendNotification"]
               ELSE /\ UNCHANGED << contactsExists, contacts >>
                    /\ task' = WebhookFailure(t1, "Error: ResetContactIndices failed")
    /\ UNCHANGED << gitea, notifications, moqui, nTasks >>

\* The signature headers an event is delivered with: every kind for a merge
\* event, the right digest for the others.
SignedWith(ev) ==
    IF ev.action = "closed" /\ ev.pull_request.merged
      THEN SignatureHeaders(ev)
      ELSE { HmacSha256Hex(WEBHOOK_SECRET, ev) }

Webhook ==
    \/ \E ev \in WebhookEvents :
         \E sig \in SignedWith(ev) : GiteaWebhook(ev, ev, sig)
    \/ \E sig \in SignatureHeaders(Null) : GiteaWebhook(EmptyEvent, Null, sig)
    \/ SendNotification
    \/ ResetContactIndices

\* ------------------------------------------- POST /moqui/sync/:contactId
SyncContactIds == DOMAIN contacts \cup {"uuid-0"}

ManualSync(contactId) ==
    /\ CanStart
    /\ task' = [IdleTask EXCEPT !.id = nTasks + 1, !.kind = "resync",
                                !.input = [ contactId |-> contactId ],
                                !.pc = "getContactById"]
    /\ nTasks' = nTasks + 1
    /\ UNCHANGED << gitea, opensearch, moqui, faults >>

\* getContactById: the stored document, null when the store answers
\* found: false, and any other failure is raised (answered 500).
GetContactById ==
    /\ task.pc = "getContactById"
    /\ LET id == task.input.contactId
       IN  \E ok \in CallOutcomes :
             LET t1 == Called(task, "getContactById", id, ok)
             IN  /\ Fault(ok)
                 /\ task' =
                   IF ~ok \/ ~contactsExists
                     THEN ManualSyncAnswer(
                            [t1 EXCEPT !.thrown = "Error: getContactById failed"], 500)
                   ELSE IF id \notin DOMAIN contacts
                     THEN ManualSyncAnswer(t1, 404)
                   ELSE [t1 EXCEPT !.contactData = contacts[id], !.pc = "createPerson"]
    /\ UNCHANGED << gitea, opensearch, moqui, nTasks >>

ManualResync ==
    \/ \E id \in SyncContactIds : ManualSync(id)
    \/ GetContactById

Propagation ==
    \/ CreatePerson
    \/ CreateContactMechs
    \/ AddEmploymentInfo
    \/ AddCustomAttributes
    \/ UpdateContact

Next == Submission \/ Webhook \/ ManualResync \/ Propagation

Spec == Init /\ [][Next]_vars

\* ------------------------------------- sendNotification, call by call
\* NotificationService.sendNotification one await per step: the document is
\* stored with status pending, the channel attempts settle, the final
\* status is written; the catch block writes status failed.
NotificationTypes == {"contact_synced", "review_requested", "system_alert"}

\* The channels of the Promise.allSettled list.
Channels == {"console"}

IdleCall ==
    [ id |-> 0, kind |-> "idle", pc |-> "idle", type |-> NoValue,
      notificationId |-> NoValue, results |-> << >>, hasSuccess |-> FALSE,
      error |-> NoValue, returned |-> Null, thrown |-> NoValue, calls |-> << >> ]

NotifyInit ==
    /\ branches = {"main"}
    /\ files = {}
    /\ pulls = << >>
    /\ contactsExists = TRUE
    /\ contacts = [id \in {} |-> Null]
    /\ notifications = << >>
    /\ persons = {}
    /\ mechs = {}
    /\ orgs = {}
    /\ relationships = {}
    /\ attributes = {}
    /\ faults = 0
    /\ nTasks = 0
    /\ task = IdleCall

NotifyFrame == UNCHANGED << gitea, contactsExists, contacts, moqui >>

\* The stored notification with id `nid`, as a set of positions.
StoredAt(nid) == { i \in DOMAIN notifications : notifications[i].id = nid }

\* sendNotification(notification) up to its first await.
NotifyStart(type) ==
    /\ CanStart
    /\ task' = [IdleCall EXCEPT !.id = nTasks + 1, !.kind = "notify",
                                !.pc = "index", !.type = type,
                                !.notificationId = "notif-" \o ToString(nTasks + 1)]
    /\ nTasks' = nTasks + 1
    /\ UNCHANGED << notifications, faults >>
    /\ NotifyFrame

\* client.index of the full notification, status pending.
NotifyIndex ==
    /\ task.kind = "notify" /\ task.pc = "index"
    /\ \E ok \in CallOutcomes :
         LET t1 == Called(task, "index", task.notificationId, ok)
         IN  /\ Fault(ok)
             /\ notifications' =
                  IF ok THEN Append(notifications,
                               [ id |-> task.notificationId, type |-> task.type,
                                 status |-> "pending", results |-> << >>,
                                 error |-> NoValue ])
                        ELSE notifications
             /\ task' = IF ok THEN [t1 EXCEPT !.pc = "channels"]
                              ELSE [t1 EXCEPT !.pc = "catch",
                                              !.error = "index failed"]
    /\ UNCHANGED nTasks
    /\ NotifyFrame

\* FinalStatus with every notification reported sent.
FinalStatusAlwaysSent(hasSuccess) == "sent"

\* fullNotification.status = hasSuccess ? "sent" : "failed"
FinalStatus(hasSuccess) == IF hasSuccess THEN "sent" ELSE "failed"

\* await Promise.allSettled([...]): every attempt settled, fulfilled or
\* rejected; hasSuccess = some attempt fulfilled.
NotifyChannels ==
    /\ task.kind = "notify" /\ task.pc = "channels"
    /\ \E rs \in [Channels -> {"fulfilled", "rejected"}] :
         task' = [task EXCEPT !.pc = "update", !.results = rs,
                              !.hasSuccess = \E c \in Channels : rs[c] = "fulfilled"]
    /\ UNCHANGED << notifications, faults, nTasks >>
    /\ NotifyFrame

\* client.update with the final status and the results, then the return.
NotifyUpdate ==
    /\ task.kind = "notify" /\ task.pc = "update"
    /\ \E ok \in CallOutcomes :
         LET t1 == Called(task, "update", task.notificationId, ok)
         IN  /\ Fault(ok)
             /\ notifications' =
                  IF ok THEN [ i \in DOMAIN notifications |->
                                 IF notifications[i].id = task.notificationId
                                   THEN [notifications[i] EXCEPT
                                           !.status = FinalStatus(task.hasSuccess),
                                           !.results = task.results]
                                   ELSE notifications[i] ]
                        ELSE notifications
             /\ task' = IF ok THEN [t1 EXCEPT !.pc = "done",
                                       !.returned = [ success |-> task.hasSuccess ]]
                              ELSE [t1 EXCEPT !.pc = "catch",
                                              !.error = "update failed"]
    /\ UNCHANGED nTasks
    /\ NotifyFrame

\* The catch block: client.update with status failed, then the return. The
\* store rejects the update of a document it does not hold; a rejected
\* update leaves the catch block as the error sendNotification raises.
NotifyCatch ==
    /\ task.kind = "notify" /\ task.pc = "catch"
    /\ LET held == StoredAt(task.notificationId) # {}
       IN  \E ok \in IF held THEN CallOutcomes ELSE {FALSE} :
             LET t1 == Called(task, "catchUpdate", task.notificationId, ok)
             IN  /\ Faulted(IF held /\ ~ok THEN 1 ELSE 0)
                 /\ notifications' =
                      IF ok THEN [ i \in DOMAIN notifications |->
                                     IF notifications[i].id = task.notificationId
                                       THEN [notifications[i] EXCEPT
                                               !.status = "failed",
                                               !.error = task.error]
                                       ELSE notifications[i] ]
                            ELSE notifications
                 /\ task' = IF ok THEN [t1 EXCEPT !.pc = "done",
                                           !.returned = [ success |-> FALSE ]]
                                  ELSE [t1 EXCEPT !.pc = "done",
                                           !.thrown = "catch update failed"]
    /\ UNCHANGED nTasks
    /\ NotifyFrame

NotifyNext ==
    \/ \E type \in NotificationTypes : NotifyStart(type)
    \/ NotifyIndex
    \/ NotifyChannels
    \/ NotifyUpdate
    \/ NotifyCatch

NotifySpec == NotifyInit /\ [][NotifyNext]_vars

\* ------------------------------ GiteaService, createBranch and commitFile
\* The two adapter calls on their own, one request per step, called any
\* number of times with the same arguments. Here `files` holds one record
\* [branch, path, content, sha] per file of the host.
BranchNames == {"contact-a", "contact-b"}
FilePaths == {"data/contacts/a.json", "metadata/submissions/a.json"}
FileContents == {"first", "second"}

\* The version token of a file: the hash of its content.
Sha(content) == "sha-" \o content

IdleGit ==
    [ id |-> 0, kind |-> "idle", pc |-> "idle", op |-> NoValue,
      branch |-> NoValue, path |-> NoValue, content |-> NoValue,
      existingFile |-> Null, request |-> NoValue, status |-> 0,
      returned |-> NoValue, thrown |-> NoValue, calls |-> << >>,
      branchesBefore |-> {}, filesBefore |-> {} ]

GitInit ==
    /\ branches = {"main"}
    /\ files = {}
    /\ pulls = << >>
    /\ contactsExists = TRUE
    /\ contacts = [id \in {} |-> Null]
    /\ notifications = << >>
    /\ persons = {}
    /\ mechs = {}
    /\ orgs = {}
    /\ relationships = {}
    /\ attributes = {}
    /\ faults = 0
    /\ nTasks = 0
    /\ task = IdleGit

GitFrame == UNCHANGED << pulls, opensearch, moqui >>

GitCall(op, branch, path, content, pc) ==
    /\ CanStart
    /\ task' = [IdleGit EXCEPT !.id = nTasks + 1, !.kind = "git", !.op = op,
                               !.pc = pc, !.branch = branch, !.path = path,
                               !.content = content,
                               !.branchesBefore = branches, !.filesBefore = files]
    /\ nTasks' = nTasks + 1
    /\ UNCHANGED << branches, files, faults >>
    /\ GitFrame

GitThrow(t, status) ==
    [t EXCEPT !.pc = "done", !.status = status, !.thrown = "request failed"]

\* createBranch(branchName): GET of the base branch's ref.
GetBaseRef ==
    /\ task.kind = "git" /\ task.pc = "getBaseRef"
    /\ \E ok \in CallOutcomes :
         LET t1 == Called(task, "GET ref", "main", ok)
         IN  /\ Fault(ok)
             /\ task' = IF ok THEN [t1 EXCEPT !.pc = "postBranch"]
                              ELSE GitThrow(t1, 500)
    /\ UNCHANGED << branches, files, nTasks >>
    /\ GitFrame

\* CreateBranchCatch with the conflict raised like any other failure.
CreateBranchCatchRaisesAll(t, status) == GitThrow(t, status)

\* The catch block of createBranch: the conflict status is answered as
\* success, any other failure is raised.
CreateBranchCatch(t, status) ==
    IF status = BranchExistsStatus
      THEN [t EXCEPT !.pc = "done", !.status = status, !.returned = t.branch]
      ELSE GitThrow(t, status)

\* createBranch(branchName): POST /branches. The host answers the conflict
\* status for a name it holds and does not create a second branch.
PostBranch ==
    /\ task.kind = "git" /\ task.pc = "postBranch"
    /\ LET exists == task.branch \in branches
       IN  \E ok \in IF exists THEN {FALSE} ELSE CallOutcomes :
             LET t1 == Called(task, "POST branches", task.branch, ok)
             IN  /\ Faulted(IF ~exists /\ ~ok THEN 1 ELSE 0)
                 /\ branches' = IF ok THEN branches \cup {task.branch} ELSE branches
                 /\ task' = IF ok
                              THEN [t1 EXCEPT !.pc = "done", !.returned = task.branch]
                              ELSE CreateBranchCatch(t1, IF exists THEN BranchExistsStatus
                                                                   ELSE 500)
    /\ UNCHANGED << files, nTasks >>
    /\ GitFrame

\* The files the host holds at a path of a branch.
FilesAt(fs, branch, path) == { f \in fs : f.branch = branch /\ f.path = path }

\* getFileContent(filePath, branch): the file with its sha, null on 404,
\* any other failure raised (and raised again by commitFile).
GetFileContent ==
    /\ task.kind = "git" /\ task.pc = "getFileContent"
    /\ \E ok \in CallOutcomes :
         LET t1    == Called(task, "GET contents", task.path, ok)
             found == FilesAt(files, task.branch, task.path)
         IN  /\ Fault(ok)
             /\ task' =
                  IF ~ok THEN GitThrow(t1, 500)
                  ELSE IF found = {} THEN [t1 EXCEPT !.pc = "write", !.existingFile = Null]
                  ELSE [t1 EXCEPT !.pc = "write",
                                  !.existingFile =
                                     [ sha |-> (CHOOSE f \in found : TRUE).sha ]]
    /\ UNCHANGED << branches, files, nTasks >>
    /\ GitFrame

\* CommitRequest with the file created whether or not it exists.
CommitRequestAlwaysPost(existingFile) == "POST"

\* commitFile: PUT with the sha when the file exists, else POST.
CommitRequest(existingFile) == IF existingFile # Null THEN "PUT" ELSE "POST"

\* Whether the host accepts the write: a POST needs the branch and no file
\* at the path, a PUT needs the file and its current sha.
HostAccepts(request, branch, path, existingFile) ==
    LET found == FilesAt(files, branch, path)
    IN  IF request = "POST"
          THEN branch \in branches /\ found = {}
          ELSE found # {} /\ \A f \in found : f.sha = existingFile.sha

\* commitFile: the PUT or POST of the content, then the return.
WriteFile ==
    /\ task.kind = "git" /\ task.pc = "write"
    /\ LET request == CommitRequest(task.existingFile)
           accepts == HostAccepts(request, task.branch, task.path, task.existingFile)
           file    == [ branch |-> task.branch, path |-> task.path,
                        content |-> task.content, sha |-> Sha(task.content) ]
       IN  \E ok \in IF accepts THEN CallOutcomes ELSE {FALSE} :
             LET t1 == [Called(task, request, task.path, ok) EXCEPT !.request = request]
             IN  /\ Faulted(IF accepts /\ ~ok THEN 1 ELSE 0)
                 /\ files' =
                      IF ~ok THEN files
                      ELSE IF request = "PUT"
                        THEN (files \ FilesAt(files, task.branch, task.path)) \cup {file}
                        ELSE files \cup {file}
                 /\ task' = IF ok THEN [t1 EXCEPT !.pc = "done", !.returned = file.sha]
                                  ELSE GitThrow(t1, IF accepts THEN 500 ELSE 422)
    /\ UNCHANGED << branches, nTasks >>
    /\ GitFrame

GitNext ==
    \/ \E name \in BranchNames :
         GitCall("createBranch", name, NoValue, NoValue, "getBaseRef")
    \/ \E branch \in BranchNames, path \in FilePaths, content \in FileContents :
         GitCall("commitFile", branch, path, content, "getFileContent")
    \/ GetBaseRef
    \/ PostBranch
    \/ GetFileContent
    \/ WriteFile

GitSpec == GitInit /\ [][GitNext]_vars

\* ------------------------------------------- transformToCdmContact alone
\* The function applied to one form object, drawn from the objects below.
TransformInputs ==
    [ fullName : {NoValue, "", "Jane Roe"},
      emailAddress : {NoValue, "not-an-email", "jane@x.com"},
      company : Companies,
      contactId : {NoValue, "c-supplied"},
      preferredContactMethod : {NoValue, "email", "fax"} ]

TransformInit ==
    /\ branches = {"main"}
    /\ files = {}
    /\ pulls = << >>
    /\ contactsExists = TRUE
    /\ contacts = [id \in {} |-> Null]
    /\ notifications = << >>
    /\ persons = {}
    /\ mechs = {}
    /\ orgs = {}
    /\ relationships = {}
    /\ attributes = {}
    /\ faults = 0
    /\ nTasks = 0
    /\ \E formData \in TransformInputs :
         task = [ kind |-> "transform", pc |-> "call", input |-> formData,
                  result |-> Null ]

TransformApply ==
    /\ task.kind = "transform" /\ task.pc = "call"
    /\ task' = [task EXCEPT !.pc = "done",
                            !.result = transformToCdmContact(task.input, uuidv4(1))]
    /\ UNCHANGED << gitea, opensearch, moqui, faults, nTasks >>

TransformSpec == TransformInit /\ [][TransformApply]_vars

\* ------------------------------------- POST /test/complete-flow, the route
\* One request at a time, one awaited call per step; every call ends either
\* way, however many failed before. Here `pulls` holds one record
\* [number, merged] per pull request and `contacts` one record
\* [contactId, syncStatus] per indexed document.
maxRetries == 5
retryDelayMs == 2000

testData(testId) ==
    [ fullName |-> "Flane weld flane",
      emailAddress |-> "flane.test." \o testId \o "@hooli.com",
      company |-> "Hooli Corporation Inc" ]

IdleFlow ==
    [ id |-> 0, kind |-> "idle", pc |-> "idle", testId |-> NoValue,
      contact |-> Null, pullRequest |-> 0, attempt |-> 0,
      mergeSuccess |-> FALSE, mergeError |-> NoValue, moquiResult |-> Null,
      calls |-> << >>, resp |-> 0, body |-> Null ]

FlowInit ==
    /\ branches = {"main"}
    /\ files = {}
    /\ pulls = << >>
    /\ contactsExists = TRUE
    /\ contacts = [id \in {} |-> Null]
    /\ notifications = << >>
    /\ persons = {}
    /\ mechs = {}
    /\ orgs = {}
    /\ relationships = {}
    /\ attributes = {}
    /\ faults = 0
    /\ nTasks = 0
    /\ task = IdleFlow

FlowFrame ==
    UNCHANGED << branches, files, contactsExists, notifications, mechs, orgs,
                 relationships, attributes, faults >>

\* The catch block of the route: 500 with success false.
FlowCatch(t, message) ==
    [t EXCEPT !.pc = "done", !.resp = 500,
              !.body = [ success |-> FALSE, error |-> "Complete flow test failed",
                         message |-> message ]]

\* res.json at the end of the try block: success is the literal true; the
\* phases report what the merge loop and createContact returned.
FlowAnswer(t) ==
    [t EXCEPT !.pc = "done", !.resp = 200,
              !.body = [ success |-> TRUE,
                         pullRequestMerged |-> t.mergeSuccess,
                         moquiSynced |-> t.moquiResult.success ]]

\* The request arrives: testId, testData and transformToCdmContact.
FlowStart ==
    /\ CanStart
    /\ LET testId == "test-" \o ToString(nTasks + 1)
           tr == transformToCdmContact(testData(testId), uuidv4(nTasks + 1))
           t0 == [IdleFlow EXCEPT !.id = nTasks + 1, !.kind = "flow",
                                  !.testId = testId]
       IN  task' = IF tr.error
                     THEN FlowCatch(t0, "CDM Contact validation failed")
                     ELSE [t0 EXCEPT !.pc = "commitCdmData", !.contact = tr.value]
    /\ nTasks' = nTasks + 1
    /\ UNCHANGED << pulls, contacts, persons >>
    /\ FlowFrame

\* await giteaService.commitCdmData(cdmContact, ...): the pull request is
\* open when it returns.
FlowCommit ==
    /\ task.kind = "flow" /\ task.pc = "commitCdmData"
    /\ \E ok \in BOOLEAN :
         LET t1 == Called(task, "commitCdmData", task.contact.contactId, ok)
             number == Len(pulls) + 1
         IN  IF ok
               THEN /\ pulls' = Append(pulls, [ number |-> number, merged |-> FALSE ])
                    /\ task' = [t1 EXCEPT !.pc = "indexContact", !.pullRequest = number]
               ELSE /\ pulls' = pulls
                    /\ task' = FlowCatch(t1, "commitCdmData failed")
    /\ UNCHANGED << contacts, persons, nTasks >>
    /\ FlowFrame

\* await openSearchService.indexContact(cdmContact); the loop starts at
\* attempt 1.
FlowIndex ==
    /\ task.kind = "flow" /\ task.pc = "indexContact"
    /\ \E ok \in BOOLEAN :
         LET t1 == Called(task, "indexContact", task.contact.contactId, ok)
             id == task.contact.contactId
         IN  IF ok
               THEN /\ contacts' = [ k \in DOMAIN contacts \cup {id} |->
                                       IF k = id
                                         THEN [ contactId |-> id, syncStatus |-> NoValue ]
                                         ELSE contacts[k] ]
                    /\ task' = [t1 EXCEPT !.pc = "mergePullRequest", !.attempt = 1]
               ELSE /\ contacts' = contacts
                    /\ task' = FlowCatch(t1, "indexContact failed")
    /\ UNCHANGED << pulls, persons, nTasks >>
    /\ FlowFrame

\* MergeLoopNext that waits after the last failure too.
MergeLoopNextTrailingDelay(attempt, ok) ==
    IF ok THEN "createContact" ELSE "delay"

\* Where the loop goes after attempt `attempt` ended: out on success
\* (break) and after the last attempt, else to the delay.
MergeLoopNext(attempt, ok) ==
    IF ok THEN "createContact"
    ELSE IF attempt < maxRetries THEN "delay" ELSE "createContact"

\* One iteration of the loop: await giteaService.mergePullRequest(number).
FlowMerge ==
    /\ task.kind = "flow" /\ task.pc = "mergePullRequest"
    /\ \E ok \in BOOLEAN :
         LET t1 == Called(task, "mergePullRequest", task.attempt, ok)
         IN  /\ pulls' = IF ok THEN [pulls EXCEPT ![task.pullRequest].merged = TRUE]
                               ELSE pulls
             /\ task' = [t1 EXCEPT !.pc = MergeLoopNext(task.attempt, ok),
                                   !.mergeSuccess = ok,
                                   !.mergeError = IF ok THEN @ ELSE "merge failed"]
    /\ UNCHANGED << contacts, persons, nTasks >>
    /\ FlowFrame

\* await new Promise(resolve => setTimeout(resolve, retryDelayMs)), then
\* attempt++.
FlowDelay ==
    /\ task.kind = "flow" /\ task.pc = "delay"
    /\ task' = [Called(task, "setTimeout", retryDelayMs, TRUE)
                  EXCEPT !.pc = IF task.attempt + 1 <= maxRetries
                                  THEN "mergePullRequest" ELSE "createContact",
                         !.attempt = @ + 1]
    /\ UNCHANGED << pulls, contacts, persons, nTasks >>
    /\ FlowFrame

\* await moquiService.createContact(cdmContact): it returns a result and
\* never raises. A failure is answered at once, a success goes on to
\* updateContact.
FlowCreateContact ==
    /\ task.kind = "flow" /\ task.pc = "createContact"
    /\ \E ok \in BOOLEAN :
         LET pid == "PERSON_" \o ToString(task.id)
             result == IF ok THEN [ success |-> TRUE, moquiId |-> pid ]
                             ELSE [ success |-> FALSE, moquiId |-> NoValue ]
             t1 == [Called(task, "createContact", task.contact.contactId, ok)
                      EXCEPT !.moquiResult = result]
         IN  /\ persons' = IF ok THEN persons \cup {pid} ELSE persons
             /\ task' = IF ok THEN [t1 EXCEPT !.pc = "updateContact"]
                              ELSE FlowAnswer(t1)
    /\ UNCHANGED << pulls, contacts, nTasks >>
    /\ FlowFrame

\* await openSearchService.updateContact(contactId, {syncStatus: "synced",
\* ...}), then the answer.
FlowUpdateContact ==
    /\ task.kind = "flow" /\ task.pc = "updateContact"
    /\ \E ok \in BOOLEAN :
         LET t1 == Called(task, "updateContact", task.contact.contactId, ok)
             id == task.contact.contactId
         IN  IF ok
               THEN /\ contacts' = [contacts EXCEPT ![id].syncStatus = "synced"]
                    /\ task' = FlowAnswer(t1)
               ELSE /\ contacts' = contacts
                    /\ task' = FlowCatch(t1, "updateContact failed")
    /\ UNCHANGED << pulls, persons, nTasks >>
    /\ FlowFrame

FlowNext ==
    \/ FlowStart
    \/ FlowCommit
    \/ FlowIndex
    \/ FlowMerge
    \/ FlowDelay
    \/ FlowCreateContact
    \/ FlowUpdateContact

FlowSpec == FlowInit /\ [][FlowNext]_vars

\* ------------------------------------------ MoquiService.addEmploymentInfo
\* The employment step on its own, called for one person after the other
\* against the mock's party store. Here `orgs` holds the organizations as a
\* sequence, in the insertion order of the mock's Map.
EmployerNames == {"Acme", "Acme Corp"}

IdleEmploy ==
    [ id |-> 0, kind |-> "idle", pc |-> "idle", partyId |-> NoValue,
      company |-> NoValue, organizationId |-> NoValue, created |-> FALSE,
      linked |-> FALSE, orgsBefore |-> << >>, calls |-> << >> ]

EmployInit ==
    /\ branches = {"main"}
    /\ files = {}
    /\ pulls = << >>
    /\ contactsExists = TRUE
    /\ contacts = [id \in {} |-> Null]
    /\ notifications = << >>
    /\ persons = {}
    /\ mechs = {}
    /\ orgs = << >>
    /\ relationships = {}
    /\ attributes = {}
    /\ faults = 0
    /\ nTasks = 0
    /\ task = IdleEmploy

EmployFrame ==
    UNCHANGED << gitea, opensearch, persons, mechs, attributes, faults >>

\* addEmploymentInfo(partyId, contactData) is called for a person with a
\* company.
EmployStart(company) ==
    /\ CanStart
    /\ task' = [IdleEmploy EXCEPT !.id = nTasks + 1, !.kind = "employ",
                                  !.pc = "getOrganizations",
                                  !.partyId = "PERSON_" \o ToString(nTasks + 1),
                                  !.company = company, !.orgsBefore = orgs]
    /\ nTasks' = nTasks + 1
    /\ UNCHANGED << orgs, relationships >>
    /\ EmployFrame

\* findOrCreateOrganization: GET /organizations?organizationName=company.
\* The mock answers the organizations whose name includes the parameter;
\* the first of them is taken when there is one.
GetOrganizations ==
    /\ task.kind = "employ" /\ task.pc = "getOrganizations"
    /\ \E ok \in BOOLEAN :
         LET t1 == Called(task, "GET /organizations", task.company, ok)
             data == SelectSeq(orgs, LAMBDA o : Includes(o.organizationName, task.company))
         IN  task' = IF ~ok THEN [t1 EXCEPT !.pc = "done"]
                     ELSE IF Len(data) > 0
                       THEN [t1 EXCEPT !.pc = "postRelationship",
                                       !.organizationId = data[1].partyId]
                       ELSE [t1 EXCEPT !.pc = "postOrganization"]
    /\ UNCHANGED << orgs, relationships, nTasks >>
    /\ EmployFrame

\* findOrCreateOrganization: POST /organizations with the company's name.
PostOrganization ==
    /\ task.kind = "employ" /\ task.pc = "postOrganization"
    /\ \E ok \in BOOLEAN :
         LET t1 == Called(task, "POST /organizations", task.company, ok)
             partyId == "ORG_" \o ToString(task.id)
         IN  IF ok
               THEN /\ orgs' = Append(orgs, [ partyId |-> partyId,
                                              organizationName |-> task.company ])
                    /\ task' = [t1 EXCEPT !.pc = "postRelationship", !.created = TRUE,
                                          !.organizationId = partyId]
               ELSE /\ orgs' = orgs
                    /\ task' = [t1 EXCEPT !.pc = "done"]
    /\ UNCHANGED << relationships, nTasks >>
    /\ EmployFrame

\* POST /relationships from the person to the organization.
PostRelationship ==
    /\ task.kind = "employ" /\ task.pc = "postRelationship"
    /\ \E ok \in BOOLEAN :
         /\ relationships' =
              IF ok THEN relationships \cup
                           { [ fromPartyId |-> task.partyId,
                               toPartyId |-> task.organizationId ] }
                    ELSE relationships
         /\ task' = [Called(task, "POST /relationships", task.organizationId, ok)
                       EXCEPT !.pc = "done", !.linked = ok]
    /\ UNCHANGED << orgs, nTasks >>
    /\ EmployFrame

EmployNext ==
    \/ \E company \in EmployerNames : EmployStart(company)
    \/ GetOrganizations
    \/ PostOrganization
    \/ PostRelationship

EmploySpec == EmployInit /\ [][EmployNext]_vars

\* ------------------------------------- GiteaService.commitFile, two callers
\* Two callers commit to the same path of the same branch; the requests of
\* their commitFile calls interleave freely. Here `task` holds one record
\* per caller and `files` one record [branch, path, content, sha] per file.
Writers == {1, 2}
RaceBranch == "contact-a"
RacePath == "data/contacts/a.json"
RaceContents == {"first", "second", "third"}

IdleWriter ==
    [ pc |-> "idle", content |-> NoValue, existingFile |-> Null,
      request |-> NoValue, replaced |-> Null, status |-> 0, thrown |-> NoValue ]

\* The host holds the branch, with or without a file at the path.
RaceInit ==
    /\ branches = {"main", RaceBranch}
    /\ files \in { {}, { [ branch |-> RaceBranch, path |-> RacePath,
                            content |-> "first", sha |-> Sha("first") ] } }
    /\ pulls = << >>
    /\ contactsExists = TRUE
    /\ contacts = [id \in {} |-> Null]
    /\ notifications = << >>
    /\ persons = {}
    /\ mechs = {}
    /\ orgs = {}
    /\ relationships = {}
    /\ attributes = {}
    /\ faults = 0
    /\ nTasks = 0
    /\ task = [ w \in Writers |-> IdleWriter ]

\* The version of the file the host holds at the path: null when none.
CurrentFile ==
    LET found == FilesAt(files, RaceBranch, RacePath)
    IN  IF found = {} THEN Null ELSE [ sha |-> (CHOOSE f \in found : TRUE).sha ]

\* Caller w calls commitFile(RacePath, content, message, RaceBranch).
RaceStart(w, content) ==
    /\ task[w].pc \in {"idle", "done"} /\ nTasks < MaxTasks
    /\ task' = [task EXCEPT ![w] = [IdleWriter EXCEPT !.pc = "getFileContent",
                                                      !.content = content]]
    /\ nTasks' = nTasks + 1
    /\ UNCHANGED << branches, files, faults >>
    /\ GitFrame

\* getFileContent of caller w: the file with its sha, null on 404, any
\* other failure raised.
RaceRead(w) ==
    /\ task[w].pc = "getFileContent"
    /\ \E ok \in CallOutcomes :
         /\ Fault(ok)
         /\ task' = [task EXCEPT ![w] =
                       IF ok THEN [@ EXCEPT !.pc = "write", !.existingFile = CurrentFile]
                             ELSE [@ EXCEPT !.pc = "done", !.status = 500,
                                            !.thrown = "request failed"]]
    /\ UNCHANGED << branches, files, nTasks >>
    /\ GitFrame

\* CommitSha with the sha the file has when the write is sent.
CommitShaLatest(t) == CurrentFile

\* commitData.sha = existingFile.sha: the token of the version that was
\* read.
CommitSha(t) == t.existingFile

\* The PUT or POST of caller w, then the return; a write the host rejects
\* is raised.
RaceWrite(w) ==
    /\ task[w].pc = "write"
    /\ LET t       == task[w]
           request == CommitRequest(t.existingFile)
           accepts == HostAccepts(request, RaceBranch, RacePath, CommitSha(t))
           file    == [ branch |-> RaceBranch, path |-> RacePath,
                        content |-> t.content, sha |-> Sha(t.content) ]
       IN  \E ok \in IF accepts THEN CallOutcomes ELSE {FALSE} :
             /\ Faulted(IF accepts /\ ~ok THEN 1 ELSE 0)
             /\ files' = IF ok THEN (files \ FilesAt(files, RaceBranch, RacePath))
                                      \cup {file}
                               ELSE files
             /\ task' = [task EXCEPT ![w] =
                           IF ok THEN [@ EXCEPT !.pc = "done", !.request = request,
                                                !.replaced = CurrentFile]
                                 ELSE [@ EXCEPT !.pc = "done", !.request = request,
                                                !.replaced = CurrentFile,
                                                !.status = IF accepts THEN 500 ELSE 422,
                                                !.thrown = "request failed"]]
    /\ UNCHANGED << branches, nTasks >>
    /\ GitFrame

RaceNext ==
    \/ \E w \in Writers, content \in RaceContents : RaceStart(w, content)
    \/ \E w \in Writers : RaceRead(w)
    \/ \E w \in Writers : RaceWrite(w)

RaceSpec == RaceInit /\ [][RaceNext]_vars

\* ------------------------------------------ OpenSearchService.initialize
\* The bootstrap of the index store and the route that calls ensureIndices
\* alone, run one after the other. Here `contacts` and `notifications`
\* hold the documents of their indices as sets, and the call's record
\* carries the rest of the store: whether the notifications index exists
\* and the reference-data index: whether it exists and the (type,
\* category, value) keys of its documents in the order they were indexed. maxRetries and retryDelay of initialize are named after it.
initializeMaxRetries == 5
initializeRetryDelay == 5000

\* The first and the last row of seedReferenceData.
referenceData ==
    << << "country", "geography", "MA" >>,
       << "industry", "business", "Manufacturing" >> >>

InitializeInit ==
    /\ branches = {"main"}
    /\ files = {}
    /\ pulls = << >>
    /\ contactsExists \in BOOLEAN
    /\ contacts \in IF contactsExists THEN { {}, {"uuid-1"} } ELSE { {} }
    /\ persons = {}
    /\ mechs = {}
    /\ orgs = {}
    /\ relationships = {}
    /\ attributes = {}
    /\ faults = 0
    /\ nTasks = 0
    /\ \E exists, referenceExists \in BOOLEAN :
         /\ notifications = IF exists THEN {"notif-1"} ELSE {}
         /\ task = [ kind |-> "idle", pc |-> "idle", retries |-> 0,
                     calls |-> << >>, thrown |-> NoValue,
                     notificationsExists |-> exists,
                     referenceExists |-> referenceExists,
                     \* the seed rows and a row of an earlier seed list
                     reference |-> IF referenceExists
                                     THEN referenceData
                                            \o << << "country", "geography", "XX" >> >>
                                     ELSE << >> ]

\* The index store as one record.
IndexStore ==
    [ contactsExists |-> contactsExists, contacts |-> contacts,
      notificationsExists |-> task.notificationsExists,
      notifications |-> notifications,
      referenceExists |-> task.referenceExists, reference |-> task.reference ]

\* ResetReferenceIndices that deletes the contacts index as well.
ResetReferenceIndicesAll(st) ==
    [st EXCEPT !.referenceExists = FALSE, !.reference = << >>,
               !.contactsExists = FALSE, !.contacts = {}]

\* ResetReferenceIndices: the reference-data index is deleted when it
\* exists.
ResetReferenceIndices(st) ==
    [st EXCEPT !.referenceExists = FALSE, !.reference = << >>]

\* ensureIndices on store st, failing at `failAt` (nowhere, at the contacts
\* index, at the creation of the reference-data index, in seedReferenceData,
\* at the notifications index): each index is created when it does not
\* exist, and the reference-data index is seeded when it was created by
\* this run. A bulk request that fails has indexed the first n rows. The
\* result is the store left behind.
ensureIndices(st, failAt, n) ==
    LET s1 == [st EXCEPT !.contactsExists = TRUE]
        s2 == [s1 EXCEPT !.referenceExists = TRUE]
        s3 == IF ~s1.referenceExists
                THEN [s2 EXCEPT !.reference =
                        IF failAt = "seed" THEN SubSeq(referenceData, 1, n)
                                           ELSE referenceData]
                ELSE s2
        s4 == [s3 EXCEPT !.notificationsExists = TRUE]
    IN  CASE failAt = "contacts"      -> st
          [] failAt = "reference"     -> s1
          [] failAt = "seed"          -> s3
          [] failAt = "notifications" -> s3
          [] failAt = "none"          -> s4

\* The store is left as st by the step in hand.
StoreBecomes(st) ==
    /\ contactsExists' = st.contactsExists
    /\ contacts' = st.contacts
    /\ notifications' = st.notifications
    /\ UNCHANGED << gitea, moqui, faults >>

\* initialize() is called (dataController.js calls it at start-up).
InitializeStart ==
    /\ task.pc \in {"idle", "done"} /\ nTasks < MaxTasks
    /\ task' = [task EXCEPT !.kind = "initialize", !.pc = "try", !.retries = 0,
                            !.calls = << >>, !.thrown = NoValue]
    /\ nTasks' = nTasks + 1
    /\ UNCHANGED << gitea, opensearch, moqui, faults >>

\* One pass of the while loop's try block, with its catch block up to the
\* delay: cluster.health, then ResetReferenceIndices and ensureIndices when
\* the status is not red. A red status and a failed call are caught alike:
\* retries++, and the error is raised when retries reached maxRetries.
InitializeTry ==
    /\ task.kind = "initialize" /\ task.pc = "try"
    /\ \E outcome \in {"ok", "red", "healthFailed", "resetFailed", "ensureFailed"},
          failAt \in {"none", "contacts", "reference", "seed", "notifications"},
          n \in 0 .. Len(referenceData) :
         LET t1 == Called(task, "cluster.health", task.retries,
                          outcome # "healthFailed")
             t2 == IF outcome \in {"red", "healthFailed"} THEN t1
                   ELSE Called(t1, "ResetReferenceIndices", task.retries,
                               outcome # "resetFailed")
             t3 == IF outcome \in {"red", "healthFailed", "resetFailed"} THEN t2
                   ELSE Called(t2, "ensureIndices", task.retries,
                               outcome # "ensureFailed")
             reset == ResetReferenceIndices(IndexStore)
             st == IF outcome \in {"red", "healthFailed", "resetFailed"}
                     THEN IndexStore
                     ELSE ensureIndices(reset, failAt, n)
         IN  /\ (failAt # "none") <=> (outcome = "ensureFailed")
             /\ (failAt # "seed" => n = 0)
             /\ task' =
                  [ (IF outcome = "ok" THEN [t3 EXCEPT !.pc = "done"]
                     ELSE IF task.retries + 1 = initializeMaxRetries
                       THEN [t3 EXCEPT !.pc = "done", !.retries = @ + 1,
                               !.thrown = "Failed to initialize OpenSearch after multiple retries"]
                       ELSE [t3 EXCEPT !.pc = "delay", !.retries = @ + 1])
                    EXCEPT !.notificationsExists = st.notificationsExists,
                           !.referenceExists = st.referenceExists,
                           !.reference = st.reference ]
             /\ StoreBecomes(st)
    /\ UNCHANGED nTasks

\* await new Promise(resolve => setTimeout(resolve, retryDelay)), then the
\* loop condition.
InitializeDelay ==
    /\ task.kind = "initialize" /\ task.pc = "delay"
    /\ task' = [Called(task, "setTimeout", initializeRetryDelay, TRUE)
                  EXCEPT !.pc = IF task.retries < initializeMaxRetries
                                  THEN "try" ELSE "done"]
    /\ UNCHANGED << gitea, opensearch, moqui, faults, nTasks >>

\* POST /opensearch/ensureIndices: one run of ensureIndices; a failure is
\* answered 500.
EnsureIndicesRoute ==
    /\ task.pc \in {"idle", "done"} /\ nTasks < MaxTasks
    /\ \E failAt \in {"none", "contacts", "reference", "seed", "notifications"},
          n \in 0 .. Len(referenceData) :
         LET st == ensureIndices(IndexStore, failAt, n)
         IN  /\ (failAt = "seed" => ~task.referenceExists)
             /\ (failAt # "seed" => n = 0)
             /\ task' = [task EXCEPT
                           !.kind = "ensureIndices", !.pc = "done", !.retries = 0,
                           !.calls = << [ op |-> "ensureIndices", arg |-> 0,
                                          ok |-> failAt = "none" ] >>,
                           !.thrown = IF failAt = "none" THEN NoValue
                                      ELSE "Failed to ensure OpenSearch indices",
                           !.notificationsExists = st.notificationsExists,
                           !.referenceExists = st.referenceExists,
                           !.reference = st.reference]
             /\ StoreBecomes(st)
    /\ nTasks' = nTasks + 1

InitializeSpec ==
    InitializeInit
      /\ [][InitializeStart \/ InitializeTry \/ InitializeDelay
              \/ EnsureIndicesRoute]_vars

\* ------------------------- MoquiService.findOrCreateOrganization, two callers
\* Two propagations reach findOrCreateOrganization; their requests
\* interleave freely. Here `task` holds one record per caller and `orgs` the
\* organizations as a sequence, in the insertion order of the mock's Map.
OrgRaceInit ==
    /\ branches = {"main"}
    /\ files = {}
    /\ pulls = << >>
    /\ contactsExists = TRUE
    /\ contacts = [id \in {} |-> Null]
    /\ notifications = << >>
    /\ persons = {}
    /\ mechs = {}
    /\ orgs = << >>
    /\ relationships = {}
    /\ attributes = {}
    /\ faults = 0
    /\ nTasks = 0
    /\ task = [ w \in Writers |->
                  [ pc |-> "idle", companyName |-> NoValue,
                    returned |-> NoValue, thrown |-> NoValue ] ]

\* Caller w calls findOrCreateOrganization(companyName).
OrgRaceStart(w, companyName) ==
    /\ task[w].pc \in {"idle", "done"} /\ nTasks < MaxTasks
    /\ task' = [task EXCEPT ![w] = [ pc |-> "getOrganizations",
                                     companyName |-> companyName,
                                     returned |-> NoValue, thrown |-> NoValue ]]
    /\ nTasks' = nTasks + 1
    /\ UNCHANGED << gitea, opensearch, moqui, faults >>

\* GET /organizations?organizationName=companyName of caller w: the first
\* organization the mock answers is returned when there is one.
OrgRaceSearch(w) ==
    /\ task[w].pc = "getOrganizations"
    /\ \E ok \in BOOLEAN :
         LET data == SelectSeq(orgs, LAMBDA o :
                                 Includes(o.organizationName, task[w].companyName))
         IN  task' = [task EXCEPT ![w] =
                        IF ~ok THEN [@ EXCEPT !.pc = "done", !.thrown = "request failed"]
                        ELSE IF Len(data) > 0
                          THEN [@ EXCEPT !.pc = "done", !.returned = data[1].partyId]
                          ELSE [@ EXCEPT !.pc = "postOrganization"]]
    /\ UNCHANGED << gitea, opensearch, moqui, faults, nTasks >>

\* POST /organizations of caller w: the mock stores the organization under
\* a fresh partyId, whatever it holds.
OrgRaceCreate(w) ==
    /\ task[w].pc = "postOrganization"
    /\ \E ok \in BOOLEAN :
         LET partyId == "ORG_" \o ToString(Len(orgs) + 1)
         IN  /\ orgs' = IF ok THEN Append(orgs, [ partyId |-> partyId,
                                                  organizationName |-> task[w].companyName ])
                              ELSE orgs
             /\ task' = [task EXCEPT ![w] =
                           IF ok THEN [@ EXCEPT !.pc = "done", !.returned = partyId]
                                 ELSE [@ EXCEPT !.pc = "done", !.thrown = "request failed"]]
    /\ UNCHANGED << gitea, opensearch, persons, mechs, relationships, attributes,
                    faults, nTasks >>

OrgRaceSpec ==
    OrgRaceInit
      /\ [][\E w \in Writers :
              \/ \E companyName \in EmployerNames : OrgRaceStart(w, companyName)
              \/ OrgRaceSearch(w)
              \/ OrgRaceCreate(w)]_vars

\* ================================================================ claims
Done(kind) == task.kind = kind /\ task.pc = "done"

CommitCalls ==
    << "ensureRepository", "createBranch", "commitDataFile",
       "commitMetadataFile", "createPullRequest" >>

\* commitCdmData ran to its end before call number j of the request.
CommitCompletedBefore(j) ==
    /\ j > Len(CommitCalls)
    /\ \A i \in DOMAIN CommitCalls :
         task.calls[i].op = CommitCalls[i] /\ task.calls[i].ok

FailedCalls(ops) ==
    { i \in DOMAIN task.calls : task.calls[i].op \in ops /\ ~task.calls[i].ok }

\* C1: within one submission indexContact is invoked only after
\* commitCdmData completed (branch, both files, pull request), and a 201
\* with status pending_review is answered only after indexContact succeeded:
\* at that answer the pull request exists and the record is indexed.
C1_CommitThenIndexThenAnswer ==
    task.kind = "submit" =>
      /\ \A j \in CallIndex(task, "indexContact") : CommitCompletedBefore(j)
      /\ task.resp = 201 =>
           /\ \E j \in CallIndex(task, "indexContact") :
                task.calls[j].ok /\ j = Len(task.calls)
           /\ task.body.status = "pending_review"
           /\ task.pr \in Range(pulls)
           /\ task.branch \in branches
           /\ << task.branch, DataFilePath(task.contact.contactId) >> \in files
           /\ << task.branch, MetadataFilePath(task.submissionId) >> \in files
           /\ task.contact.contactId \in DOMAIN contacts

C1_Witness == Done("submit") /\ task.resp = 201

\* C8: when commitCdmData fails the submission is answered 500 with the
\* request id, no call of the commit is made twice, indexContact is never
\* invoked and the index holds no entry for the record.
C8_CommitFailureSurfaced ==
    (Done("submit") /\ FailedCalls(Range(CommitCalls)) # {}) =>
      /\ task.resp = 500
      /\ Field(task.body, "requestId") = task.requestId
      /\ \A op \in Range(CommitCalls) : CountCalls(task, op) <= 1
      /\ CountCalls(task, "indexContact") = 0
      /\ task.contact.contactId \notin DOMAIN contacts

C8_Witness ==
    /\ Done("submit") /\ FailedCalls({"createPullRequest"}) # {}
    /\ task.requestId = "rid-7"

\* C9: when indexContact fails after commitCdmData succeeded the submission
\* is answered 500 and nothing is rolled back: no deleteBranch is called,
\* and the branch, its two files and the pull request are still on the host.
C9_IndexFailureKeepsCommit ==
    (Done("submit") /\ FailedCalls({"indexContact"}) # {}) =>
      /\ task.resp = 500
      /\ CommitCompletedBefore(Len(task.calls))
      /\ CountCalls(task, "deleteBranch") = 0
      /\ task.branch \in branches
      /\ << task.branch, DataFilePath(task.contact.contactId) >> \in files
      /\ << task.branch, MetadataFilePath(task.submissionId) >> \in files
      /\ task.pr \in Range(pulls)

C9_Witness == Done("submit") /\ FailedCalls({"indexContact"}) # {}

\* C10: when a file commit or the pull-request creation fails, deleteBranch
\* is called exactly once, on the generated branch, and the error raised to
\* the caller is that of the failed step, also when deleteBranch fails.
C10_CleanupKeepsError ==
    \A i \in FailedCalls({"commitDataFile", "commitMetadataFile", "createPullRequest"}) :
      Done("submit") =>
        /\ CountCalls(task, "deleteBranch") = 1
        /\ \A j \in CallIndex(task, "deleteBranch") :
             /\ j > i
             /\ task.calls[j].arg = task.branch
             /\ task.calls[j].ok => task.branch \notin branches
        /\ task.thrown = "Error: " \o task.calls[i].op \o " failed"

C10_Witness ==
    /\ Done("submit") /\ FailedCalls({"createPullRequest"}) # {}
    /\ FailedCalls({"deleteBranch"}) # {}

\* The merge handler ran for the pull request of a submitted record and
\* createContact returned `success`.
MergeHandled(success) ==
    /\ Done("webhook")
    /\ task.handler = "handlePullRequestMerged"
    /\ task.pr \in Range(pulls)
    /\ task.moquiResult # Null
    /\ task.moquiResult.success = success

NotificationsOf(id, type) ==
    { i \in DOMAIN notifications :
        notifications[i].task = id /\ notifications[i].type = type }

SyncStatus(id) == Field(contacts[id], "syncStatus")

\* What the merge handler leaves when it ran to its end: the index entry of
\* the record's identifier is synced and carries the remote id createContact
\* returned, which names a person of the downstream system; one
\* contact_synced notification is recorded for the webhook and nothing else;
\* the index was updated before the notification was sent.
MergeSyncedOutcome ==
    LET id == task.contactData.contactId
    IN  /\ id \in DOMAIN contacts
        /\ id = BodyMatch(task.pr.body, "**Contact ID:** ")
        /\ SyncStatus(id) = "synced"
        /\ Field(contacts[id], "moquiId") = task.moquiResult.moquiId
        /\ Truthy(task.moquiResult.moquiId)
        /\ \E p \in persons : p.partyId = task.moquiResult.moquiId
        /\ Cardinality(NotificationsOf(task.id, "contact_synced")) = 1
        /\ \A n \in DOMAIN notifications :
             notifications[n].task = task.id =>
               notifications[n].type = "contact_synced"
        /\ \E i \in CallIndex(task, "updateContact") :
             /\ task.calls[i].ok
             /\ \A j \in CallIndex(task, "sendNotification") : i < j

C3_PropagationFailureRecorded ==
    MergeHandled(FALSE) =>
      LET id == task.contactData.contactId
      IN  /\ id \in DOMAIN contacts => SyncStatus(id) = "failed"
          /\ NotificationsOf(task.id, "sync_failed") # {}

\* C4: the state (syncStatus, moquiId) of a record that is synced or failed
\* changes only in a manual re-sync; a merge webhook leaves it as it is.
C4_SyncedOnlyChangedByResync ==
    [][ \A id \in DOMAIN contacts :
          ( /\ SyncStatus(id) \in {"synced", "failed"}
            /\ id \in DOMAIN contacts'
            /\ \/ Field(contacts'[id], "syncStatus") # SyncStatus(id)
               \/ Field(contacts'[id], "moquiId") # Field(contacts[id], "moquiId") )
          => task.kind = "resync" ]_vars

\* C5: every record of the records index carries a pipeline state, one of
\* pending_review, synced, failed; a successful submission writes
\* pending_review.
C5_PipelineStateStored ==
    \A id \in DOMAIN contacts :
      SyncStatus(id) \in {"pending_review", "synced", "failed"}

\* C6: processing the merge webhook of a pull request twice leaves what
\* processing it once leaves: one remote person for the record, one moquiId
\* and one contact_synced notification.
C6_MergeWebhookIdempotent ==
    \A pr \in Range(pulls) :
      LET synced == { i \in DOMAIN notifications :
                        /\ notifications[i].type = "contact_synced"
                        /\ notifications[i].metadata.pullRequestNumber = pr.number }
      IN  /\ Cardinality(synced) <= 1
          /\ Cardinality({ notifications[i].metadata.moquiId : i \in synced }) <= 1

\* The request's signature header is missing or is not the digest of its
\* raw body under the shared secret.
BadSignature(req) ==
    \/ req.signature = Null
    \/ req.rawBody = Null
    \/ req.signature # HmacSha256Hex(WEBHOOK_SECRET, req.rawBody)

\* C7: a webhook whose signature is missing or wrong (a signature of another
\* length and a request without raw body included) is answered 401 and no
\* handler runs: no adapter call is made.
C7_BadSignatureIs401 ==
    (Done("webhook") /\ BadSignature(task.input)) =>
      /\ task.resp = 401
      /\ task.handler = NoValue
      /\ task.calls = << >>

\* C11: a branch whose commitCdmData succeeded is never deleted: the head
\* branch of every pull request and its two files stay on the host, the
\* submission that committed it issues no deleteBranch, and no webhook or
\* re-sync issues one.
C11_BranchKeptOnSuccess ==
    /\ \A p \in Range(pulls) :
         /\ p.head \in branches
         /\ \E f \in files : f[1] = p.head
    /\ (task.kind = "submit" /\ Len(task.calls) >= Len(CommitCalls)
          /\ CommitCompletedBefore(Len(task.calls) + 1))
         => CallIndex(task, "deleteBranch") = {}
    /\ task.kind # "submit" => CallIndex(task, "deleteBranch") = {}

C11_Witness ==
    MergeHandled(TRUE) /\ task.resp = 200 /\ task.pr.head \in branches

\* C12: once POST /persons succeeded, createContact returns success: true
\* with that person's id whichever contact-mechanism, employment or
\* attribute call failed; it returns success: false only when POST /persons
\* failed.
C12_PersonCreatedMeansSuccess ==
    task.moquiResult # Null =>
      /\ task.partyId # NoValue =>
           /\ task.moquiResult.success
           /\ Field(task.moquiResult, "moquiId") = task.partyId
      /\ ~task.moquiResult.success => FailedCalls({"POST /persons"}) # {}

\* The notification of the webhook in flight did not go out: the call
\* raised, or it stored a status other than sent.
NotificationFailed ==
    /\ CallIndex(task, "sendNotification") # {}
    /\ \/ FailedCalls({"sendNotification"}) # {}
       \/ \E n \in DOMAIN notifications :
            notifications[n].task = task.id /\ notifications[n].status # "sent"

\* C13: when the merge handler updated the index to synced and its
\* notification then failed, the record still has syncStatus synced and the
\* remote id of this propagation when the webhook is answered.
C13_NotificationFailureKeepsSynced ==
    ( /\ Done("webhook")
      /\ task.handler = "handlePullRequestMerged"
      /\ NotificationFailed )
    => LET id == task.contactData.contactId
       IN  /\ id \in DOMAIN contacts
           /\ SyncStatus(id) = "synced"
           /\ Field(contacts[id], "moquiId") = task.moquiResult.moquiId

C13_Witness ==
    /\ Done("webhook")
    /\ task.handler = "handlePullRequestMerged"
    /\ FailedCalls({"sendNotification"}) # {}
    /\ task.resp = 500

\* The re-sync in flight got createContact's result and wrote it to the
\* index: synced with the remote id and 200 after a success, failed with the
\* error and 500 after a failure.
ResyncRecorded ==
    LET id == task.input.contactId
        r  == task.moquiResult
    IN  /\ id \in DOMAIN contacts
        /\ IF r.success
             THEN /\ SyncStatus(id) = "synced"
                  /\ Field(contacts[id], "moquiId") = r.moquiId
                  /\ Truthy(r.moquiId)
                  /\ task.resp = 200
             ELSE /\ SyncStatus(id) = "failed"
                  /\ Field(contacts[id], "syncError") = r.error
                  /\ task.resp = 500

\* The re-sync in flight called nothing but the lookup, the propagation
\* steps and the index update.
ResyncCallsOnlyPropagation ==
    \A i \in DOMAIN task.calls :
      task.calls[i].op \in
        { "getContactById", "POST /persons", "POST /contactMechs",
          "addEmploymentInfo", "addCustomAttributes", "updateContact" }

\* C14: a manual re-sync never calls commitCdmData or indexContact. For an
\* identifier the index does not hold it makes no downstream call and
\* answers 404 when the lookup was answered (the index exists and the call
\* did not fail), 500 when the lookup raised. After createContact returned
\* and the index update succeeded, the record is synced with the remote id
\* (answer 200) or failed with the error (answer 500); when the index update
\* raises the answer is 500.
C14_ResyncOnlyPropagates ==
    Done("resync") =>
      LET id == task.input.contactId
      IN  /\ ResyncCallsOnlyPropagation
          /\ task.calls # << >> /\ task.calls[1].op = "getContactById"
          /\ id \notin DOMAIN contacts =>
               /\ Len(task.calls) = 1
               /\ task.moquiResult = Null
               /\ task.resp = IF contactsExists /\ task.calls[1].ok THEN 404 ELSE 500
          /\ task.moquiResult # Null =>
               /\ task.calls[Len(task.calls)].op = "updateContact"
               /\ IF task.calls[Len(task.calls)].ok THEN ResyncRecorded
                                                   ELSE task.resp = 500

C14_Witness ==
    /\ Done("resync")
    /\ task.moquiResult # Null
    /\ ~task.moquiResult.success
    /\ ResyncRecorded

\* C14 as stated: a re-sync calls only propagation, answers 404 without a
\* downstream call for an identifier absent from the index, and after
\* propagation the record is synced with the remote id or failed with the
\* error and a 500.
C14_Original ==
    Done("resync") =>
      /\ ResyncCallsOnlyPropagation
      /\ task.input.contactId \notin DOMAIN contacts =>
           task.resp = 404 /\ Len(task.calls) = 1
      /\ task.moquiResult # Null => ResyncRecorded

\* The adapter operations of the webhook in flight, and the types of the
\* notifications it recorded.
OpsCalled == { task.calls[i].op : i \in DOMAIN task.calls }
TypesNotified ==
    { notifications[n].type :
        n \in { k \in DOMAIN notifications : notifications[k].task = task.id } }

PropagationOps ==
    { "POST /persons", "POST /contactMechs", "addEmploymentInfo",
      "addCustomAttributes", "updateContact", "sendNotification" }

\* C15: an authenticated webhook runs the handler of its event type and no
\* other. A closed and merged pull request only propagates (and records
\* nothing but contact_synced); an opened one only emits review_requested; a
\* synchronized one only emits review_updated; a deleted repository only
\* resets the records index and emits repository_deleted; any other event
\* calls nothing, records nothing and is answered 200.
C15_DispatchByEventType ==
    (task.kind = "webhook" /\ ~BadSignature(task.input)) =>
      LET ev == task.input.event
          pr == ev.pull_request # Null
      IN  IF ev.action = "deleted" /\ ev.repository # Null
            THEN /\ OpsCalled \subseteq {"ResetContactIndices", "sendNotification"}
                 /\ TypesNotified \subseteq {"repository_deleted"}
                 /\ task.calls # << >> => task.calls[1].op = "ResetContactIndices"
          ELSE IF pr /\ ev.action = "closed" /\ ev.pull_request.merged
            THEN /\ OpsCalled \subseteq PropagationOps
                 /\ TypesNotified \subseteq {"contact_synced"}
          ELSE IF pr /\ ev.action = "opened"
            THEN /\ OpsCalled \subseteq {"sendNotification"}
                 /\ TypesNotified \subseteq {"review_requested"}
                 /\ Len(task.calls) <= 1
          ELSE IF pr /\ ev.action = "synchronized"
            THEN /\ OpsCalled \subseteq {"sendNotification"}
                 /\ TypesNotified \subseteq {"review_updated"}
                 /\ Len(task.calls) <= 1
          ELSE /\ task.calls = << >>
               /\ TypesNotified = {}
               /\ task.pc = "done"
               /\ task.resp = 200

C15_Witness ==
    /\ Done("webhook")
    /\ ~BadSignature(task.input)
    /\ task.input.event.action = "closed"
    /\ ~task.input.event.pull_request.merged
    /\ task.input.event.pull_request.pr \in Range(pulls)
    /\ task.resp = 200

\* C16: the identifier assigned at transform time is the one used
\* everywhere. Transform keeps a supplied contactId and generates one only
\* when none is supplied; the data file path, the pull-request body, the
\* index document and its id, and the 201 response of a submission carry the
\* contact's contactId; every stored record keeps the contactId it is stored
\* under through index updates, webhooks and re-syncs, and no two pull
\* requests carry the same identifier.
C16_SingleIdentifier ==
    /\ task.pc = "idle" =>
         \A b \in SubmissionBodies :
           LET r == transformToCdmContact(b, uuidv4(1))
           IN  ~r.error =>
                 r.value.contactId =
                   IF b.contactId # NoValue THEN b.contactId ELSE uuidv4(1)
    /\ \A id \in DOMAIN contacts : Field(contacts[id], "contactId") = id
    /\ \A i, j \in DOMAIN pulls :
         i # j => BodyMatch(pulls[i].body, "**Contact ID:** ")
                    # BodyMatch(pulls[j].body, "**Contact ID:** ")
    /\ (task.kind = "submit" /\ task.contact # Null) =>
         LET id == task.contact.contactId
         IN  /\ id = uuidv4(task.id)
             /\ \A i \in DOMAIN task.calls :
                  /\ task.calls[i].op = "commitDataFile" =>
                       task.calls[i].arg = DataFilePath(id)
                  /\ task.calls[i].op = "indexContact" => task.calls[i].arg = id
             /\ task.pr # Null => BodyMatch(task.pr.body, "**Contact ID:** ") = id
             /\ task.resp = 201 =>
                  /\ task.body.contactId = id
                  /\ id \in DOMAIN contacts
                  /\ << task.branch, DataFilePath(id) >> \in files

C16_Witness ==
    /\ Done("resync")
    /\ task.resp = 200
    /\ Field(contacts[task.input.contactId], "contactId") = task.input.contactId
    /\ BodyMatch(pulls[1].body, "**Contact ID:** ") = task.input.contactId

\* The stored document of the sendNotification call in flight.
StoredNotification ==
    notifications[CHOOSE i \in DOMAIN notifications :
                    notifications[i].id = task.notificationId]

\* The persisted status and the returned flag say what the channels did:
\* sent and success exactly when an attempt was fulfilled, with the results
\* persisted.
ReportsChannels ==
    /\ StoredAt(task.notificationId) # {}
    /\ StoredNotification.status = (IF task.hasSuccess THEN "sent" ELSE "failed")
    /\ StoredNotification.results = task.results
    /\ task.returned.success = task.hasSuccess

\* C17: sendNotification writes the final status only after every channel
\* attempt settled. Once it has returned, the notification is stored and not
\* pending, and it is sent exactly when success: true was returned, which
\* happens only when an attempt was fulfilled. When no store call failed,
\* the persisted status is sent if and only if an attempt was fulfilled, the
\* results are persisted and the returned flag has the same truth value;
\* when the final update fails, failed is persisted and success: false is
\* returned whatever the channels did.
C17_NotificationStatus ==
    task.kind = "notify" =>
      /\ task.pc = "update" => DOMAIN task.results = Channels
      /\ CallIndex(task, "update") # {} => DOMAIN task.results = Channels
      /\ (task.pc = "done" /\ task.returned # Null) =>
           /\ Cardinality(StoredAt(task.notificationId)) = 1
           /\ StoredNotification.status \in {"sent", "failed"}
           /\ StoredNotification.status = "sent" <=> task.returned.success
           /\ task.returned.success => task.hasSuccess
           /\ FailedCalls({"index", "update"}) = {} => ReportsChannels
           /\ FailedCalls({"index", "update"}) # {} =>
                StoredNotification.status = "failed"

C17_Witness ==
    /\ task.kind = "notify" /\ task.pc = "done" /\ task.returned # Null
    /\ ~task.hasSuccess
    /\ FailedCalls({"index", "update"}) = {}
    /\ ReportsChannels

\* C17 as stated: once sendNotification has returned, the persisted status
\* is sent if and only if a channel attempt succeeded, the results are
\* persisted and the returned flag has the same truth value.
C17_Original ==
    (task.kind = "notify" /\ task.pc = "done" /\ task.returned # Null)
      => ReportsChannels

GitDone(op) == task.kind = "git" /\ task.op = op /\ task.pc = "done"

C19_CommitFileUpdates ==
    /\ task.kind = "git" =>
         \A b \in BranchNames, p \in FilePaths :
           Cardinality(FilesAt(files, b, p)) <= 1
    /\ (GitDone("commitFile") /\ task.branch \in task.branchesBefore
          /\ task.status # 500) =>
         LET before == FilesAt(task.filesBefore, task.branch, task.path)
             after  == FilesAt(files, task.branch, task.path)
         IN  /\ Cardinality(after) = 1
             /\ \A f \in after : f.content = task.content
             /\ task.thrown = NoValue
             /\ IF before = {}
                  THEN task.request = "POST" /\ task.existingFile = Null
                  ELSE /\ task.request = "PUT"
                       /\ \A f \in before : task.existingFile.sha = f.sha

C19_Witness ==
    /\ GitDone("commitFile")
    /\ \E f \in FilesAt(task.filesBefore, task.branch, task.path) :
         f.content # task.content
    /\ \A f \in FilesAt(files, task.branch, task.path) : f.content = task.content
    /\ task.thrown = NoValue

\* C20: a submission with valid required fields and a field no schema knows
\* is accepted (201 when no adapter call fails) and the record stored for it
\* holds no such field.
C20_UnknownFieldsDropped ==
    ( /\ Done("submit")
      /\ task.input.fullName # "" /\ task.input.emailAddress = "jane@x.com"
      /\ task.input.nickname # NoValue
      /\ FailedCalls(OpsCalled) = {} )
    => /\ task.resp = 201
       /\ task.contact # Null
       /\ task.contact.contactId \in DOMAIN contacts
       /\ "nickname" \notin DOMAIN contacts[task.contact.contactId]

\* C21: a submission answered 400 carries one message for each field that
\* fails validation.
C21_MessagePerFailingField ==
    (Done("submit") /\ task.resp = 400) =>
      Len(task.body.details) = Len(SubmissionErrors(task.input))

\* The fields of a form object that are missing or invalid.
InvalidFields(formData) ==
    (IF ~Truthy(formData.fullName) THEN {"fullName"} ELSE {})
    \cup (IF formData.emailAddress \notin ValidEmails THEN {"emailAddress"} ELSE {})
    \cup (IF formData.preferredContactMethod \notin ContactMethods \cup {NoValue}
            THEN {"preferredContactMethod"} ELSE {})

\* C22: transformToCdmContact applied to a form object with missing or
\* invalid fields raises one error whose message names exactly the failing
\* fields, each once, and returns no record; applied to a form object
\* without such fields it returns the record.
C22_TransformReportsAllFields ==
    (task.kind = "transform" /\ task.pc = "done") =>
      LET bad == InvalidFields(task.input)
          r   == task.result
      IN  IF bad = {}
            THEN ~r.error /\ r.value # Null /\ r.value.fullName = task.input.fullName
            ELSE /\ r.error
                 /\ r.value = Null
                 /\ { r.message[i][1] : i \in DOMAIN r.message } = bad
                 /\ Len(r.message) = Cardinality(bad)

C22_Witness ==
    /\ task.kind = "transform" /\ task.pc = "done"
    /\ Cardinality(InvalidFields(task.input)) = 3
    /\ Len(task.result.message) = 3

\* C23: the complete-flow route answers success true only when every phase
\* worked: commitCdmData and indexContact succeeded, the pull request is
\* merged, createContact succeeded and the document is marked synced.
C23_SuccessMeansAllPhases ==
    (Done("flow") /\ task.body.success) =>
      /\ FailedCalls({"commitCdmData", "indexContact"}) = {}
      /\ task.mergeSuccess
      /\ pulls[task.pullRequest].merged
      /\ task.moquiResult.success
      /\ contacts[task.contact.contactId].syncStatus = "synced"

\* The calls of the merge loop in the request's history.
MergeAttempts == CallIndex(task, "mergePullRequest")
MergeDelays == CallIndex(task, "setTimeout")
PastMergeLoop ==
    task.kind = "flow"
      /\ (task.pc = "createContact" \/ CountCalls(task, "createContact") > 0)

\* The distance of the loop from its end: two steps for every attempt left,
\* one less when the attempt of this iteration was made.
MergeLoopMeasure(t) ==
    2 * (maxRetries + 1 - t.attempt) - (IF t.pc = "delay" THEN 1 ELSE 0)

\* C29: in the complete-flow route mergePullRequest is attempted at least
\* once and at most 5 times; no attempt follows a successful one; a delay of
\* 2000 ms separates a failed attempt from the next and none follows the
\* fifth failure; every step of the loop brings it closer to its end.
C29_MergeLoopBounded ==
    /\ [](task.kind = "flow" =>
            LET c == task.calls
            IN  /\ Cardinality(MergeAttempts) <= maxRetries
                /\ PastMergeLoop => Cardinality(MergeAttempts) >= 1
                /\ \A i \in MergeAttempts :
                     /\ c[i].ok => \A j \in MergeAttempts \cup MergeDelays : j <= i
                     /\ (~c[i].ok /\ c[i].arg < maxRetries) =>
                          IF i < Len(c) THEN c[i + 1].op = "setTimeout"
                                        ELSE task.pc = "delay"
                     /\ (~c[i].ok /\ c[i].arg = maxRetries) =>
                          /\ task.pc # "delay"
                          /\ i < Len(c) => c[i + 1].op = "createContact"
                /\ \A i \in MergeDelays :
                     /\ c[i].arg = retryDelayMs
                     /\ c[i - 1].op = "mergePullRequest" /\ ~c[i - 1].ok
                     /\ IF i < Len(c) THEN c[i + 1].op = "mergePullRequest"
                                      ELSE task.pc = "mergePullRequest")
    /\ [][(task.kind = "flow" /\ task.pc \in {"mergePullRequest", "delay"}) =>
            \/ task'.pc \in {"createContact"}
            \/ /\ task'.pc \in {"mergePullRequest", "delay"}
               /\ MergeLoopMeasure(task') < MergeLoopMeasure(task)]_vars

\* All five attempts failed, four delays between them, and the route went
\* on to answer.
C29_Witness ==
    /\ Done("flow") /\ task.resp = 200
    /\ Cardinality(MergeAttempts) = maxRetries
    /\ Cardinality(MergeDelays) = maxRetries - 1
    /\ ~task.mergeSuccess

\* C24: the employment relation links the person to an organization whose
\* name equals the record's company exactly, and an organization is created
\* if and only if none with exactly that name existed.
C24_EmployerMatchedExactly ==
    (Done("employ") /\ task.linked) =>
      /\ \E i \in DOMAIN orgs :
           /\ orgs[i].partyId = task.organizationId
           /\ orgs[i].organizationName = task.company
      /\ task.created <=>
           ~\E i \in DOMAIN task.orgsBefore :
               task.orgsBefore[i].organizationName = task.company

\* C25: after a repository-deleted webhook was handled the contacts index
\* exists and is empty, and exactly one repository_deleted notification is
\* recorded for the webhook.
C25_ResetRecreatesIndex ==
    (Done("webhook") /\ task.handler = "handleRepositoryDeleted" /\ task.resp = 200) =>
      /\ contactsExists
      /\ DOMAIN contacts = {}
      /\ Cardinality(NotificationsOf(task.id, "repository_deleted")) = 1

\* C26: extractContactDataFromPR applied to the pull request commitCdmData
\* opened for a record returns the record's contactId, fullName,
\* emailAddress and company, and no company when the record has none.
C26_ExtractionReturnsRecord ==
    (task.kind = "submit" /\ task.pr # Null /\ task.pr \in Range(pulls)) =>
      LET R == task.contact
          x == extractContactDataFromPR(task.pr)
      IN  /\ x # Null
          /\ x.contactId = R.contactId
          /\ x.fullName = R.fullName
          /\ x.emailAddress = R.emailAddress
          /\ x.company = R.company

\* C27: createContact joins its contact-mechanism calls all-settled: when
\* one of them failed, the employment step still runs for a record with a
\* company and the attribute step for a record with custom fields or notes.
C27_MechFailureSkipsNoStep ==
    (task.kind \in {"webhook", "resync"} /\ task.pc = "done" /\ task.mechFailed) =>
      /\ Truthy(Field(task.contactData, "company")) =>
           CountCalls(task, "addEmploymentInfo") = 1
      /\ WantsAttributes(task.contactData) =>
           CountCalls(task, "addCustomAttributes") = 1

\* C28: when commitFile calls for the same path and branch interleave, a
\* call returns only when the host replaced the very version the call had
\* read, and a write sent with a stale or missing token is rejected by the
\* host, changes no file and is raised to the caller.
C28_NoLostUpdate ==
    /\ [](\A w \in Writers :
            (task[w].pc = "done" /\ task[w].request # NoValue) =>
              /\ task[w].thrown = NoValue => task[w].replaced = task[w].existingFile
              /\ task[w].replaced # task[w].existingFile =>
                   task[w].thrown # NoValue /\ task[w].status = 422)
    /\ [][\A w \in Writers :
            (task[w].pc = "write" /\ task'[w].pc = "done"
               /\ CurrentFile # task[w].existingFile) => files' = files]_vars

\* The two calls interleaved: both read the same version, one wrote, and the
\* write of the other was rejected.
C28_Witness ==
    \E w, v \in Writers :
      /\ w # v
      /\ task[w].pc = "done" /\ task[w].thrown = NoValue /\ task[w].request # NoValue
      /\ task[v].pc = "done" /\ task[v].status = 422
      /\ task[v].existingFile = task[w].existingFile
      /\ task[v].replaced # task[v].existingFile

\* C30: outside the merge loop of the complete-flow route no adapter call
\* is issued again after it failed; in the bootstrap of the index store
\* every call is made at most once and none follows a failed one.
C30_BootstrapCallsOnce ==
    task.kind = "initialize" =>
      /\ \A op \in {"cluster.health", "ResetReferenceIndices", "ensureIndices"} :
           CountCalls(task, op) <= 1
      /\ \A i \in DOMAIN task.calls :
           ~task.calls[i].ok => i = Len(task.calls)

C32_SeedKeysExactlyOnce ==
    (task.pc = "done" /\ task.kind \in {"initialize", "ensureIndices"}
       /\ task.thrown = NoValue) =>
      /\ task.referenceExists
      /\ \A i \in DOMAIN referenceData :
           Cardinality({ j \in DOMAIN task.reference :
                           task.reference[j] = referenceData[i] }) = 1

\* The patch the handler in hand passes to updateContact.
UpdateData ==
    IF task.kind = "webhook" THEN WebhookSyncedPatch(task.moquiResult)
                             ELSE ManualSyncPatch(task.moquiResult)

\* C33: updateContact has merge-patch semantics: the fields of the patch
\* take the patch's values, modifiedOn is refreshed, every other field of
\* the document and every other document is unchanged; the updates of the
\* merge handler and of the re-sync route leave the contact fields alone.
C33_UpdateIsMergePatch ==
    [][(task.pc = "updateContact" /\ contacts' # contacts) =>
         LET id == task.contactData.contactId
             before == contacts[id]
             after == contacts'[id]
         IN  /\ DOMAIN contacts' = DOMAIN contacts
             /\ \A other \in DOMAIN contacts \ {id} : contacts'[other] = contacts[other]
             /\ \A k \in DOMAIN UpdateData : after[k] = UpdateData[k]
             /\ after.modifiedOn = task.id
             /\ \A k \in DOMAIN before \ (DOMAIN UpdateData \cup {"modifiedOn"}) :
                  k \in DOMAIN after /\ after[k] = before[k]
             /\ \A k \in {"contactId", "fullName", "emailAddress", "company"} :
                  after[k] = before[k]]_vars

\* A record was updated twice: the second update refreshed modifiedOn and
\* kept the name the record was indexed with.
C33_Witness ==
    /\ task.kind = "resync" /\ task.pc = "done" /\ task.resp = 200
    /\ \E id \in DOMAIN contacts :
         /\ id = task.contactData.contactId
         /\ contacts[id].modifiedOn = task.id
         /\ contacts[id].syncStatus = "synced"
         /\ contacts[id].lastSyncType = "manual"
         /\ contacts[id].fullName = "Jane Roe"

\* C34: commitCdmData issues deleteBranch only for a branch its own
\* createBranch call created: every deleteBranch request of a submission
\* follows a createBranch call of the same submission that succeeded.
C34_CleanupOnlyOwnBranch ==
    task.kind = "submit" =>
      \A i \in DOMAIN task.calls :
        task.calls[i].op = "deleteBranch" =>
          \E j \in 1 .. i - 1 :
            task.calls[j].op = "createBranch" /\ task.calls[j].ok

\* C35: whenever createContact returned success false, the attempt left no
\* person in the downstream system.
C35_FailedAttemptLeavesNoPerson ==
    (task.kind \in {"webhook", "resync"} /\ task.moquiResult # Null
       /\ ~task.moquiResult.success) =>
      ~\E p \in persons : p.partyId = "PERSON_" \o ToString(task.id)

\* C36: in the complete-flow route the propagation and the synced update
\* happen only after a merge attempt that succeeded: when all attempts
\* failed, createContact is not called, no person is created and the record
\* is not marked synced.
C36_NoPropagationWithoutMerge ==
    (task.kind = "flow" /\ Cardinality(MergeAttempts) = maxRetries
       /\ ~task.mergeSuccess /\ task.pc # "mergePullRequest") =>
      /\ task.pc # "createContact"
      /\ CountCalls(task, "createContact") = 0
      /\ "PERSON_" \o ToString(task.id) \notin persons
      /\ contacts[task.contact.contactId].syncStatus # "synced"

\* C37: concurrent propagations for records with the same company create at
\* most one organization of that name.
C37_OneOrganizationPerName ==
    \A i, j \in DOMAIN orgs :
      orgs[i].organizationName = orgs[j].organizationName => i = j

\* C38: for the same indexed record the merge handler and the re-sync route
\* pass createContact data that lead to the same downstream calls: the same
\* person, contact mechanisms, employment link and attributes.
C38_SameCallsFromWebhookAndResync ==
    (task.kind = "webhook" /\ task.handler = "handlePullRequestMerged"
       /\ task.contactData # Null
       /\ Field(task.contactData, "contactId") \in DOMAIN contacts) =>
      LET fromPR == task.contactData
          stored == contacts[task.contactData.contactId]
      IN  /\ fromPR.fullName = stored.fullName
          /\ ContactMechs(fromPR) = ContactMechs(stored)
          /\ Truthy(Field(fromPR, "company")) = Truthy(Field(stored, "company"))
          /\ Truthy(Field(stored, "company")) => fromPR.company = stored.company
          /\ WantsAttributes(fromPR) = WantsAttributes(stored)
          /\ WantsAttributes(stored) => CustomAttributes(fromPR) = CustomAttributes(stored)

\* C39: sendNotification never raises: every finished call has returned a
\* result object, and a call whose initial persist or final status update
\* was rejected has returned success: false.
C39_SendNotificationNeverRaises ==
    (task.kind = "notify" /\ task.pc = "done") =>
      /\ task.thrown = NoValue
      /\ task.returned # Null
      /\ FailedCalls({"index", "update"}) # {} => ~task.returned.success

====
